---- MODULE Spec2Model ----
(***************************************************************************)
(* you-predict-core: event-driven discovery of videos, fan-out of delayed  *)
(* polling tasks, and the delayed-task handlers that upsert warehouse      *)
(* rows.  Times are whole hours since an epoch.  A nullable value (Python  *)
(* None) is the empty set, a present value x is {x}.                       *)
(***************************************************************************)
EXTENDS Integers, Sequences, FiniteSets, Bags, TLC

VARIABLES
    video_monitoring,        \* warehouse table video_monitoring: a set of rows
    queue,                   \* Cloud Tasks queue: a bag of tasks
    cloud_run_service_url,   \* Settings.cloud_run_service_url
    now,                     \* utcnow(), in hours
    inv,                     \* webhook / fan-out invocations: slot -> local state
    delivered,               \* number of invocations started so far
    faults,                  \* collaborator failures injected so far
    feed,                    \* the notification the hub delivers and redelivers
    calls,                   \* log of direct DiscoveryEngine calls
    fact_video_snapshot,     \* warehouse table fact_video_snapshot
    fact_comment,            \* warehouse table fact_comment
    dim_video_transcript,    \* warehouse table dim_video_transcript
    fact_channel_snapshot,   \* warehouse table fact_channel_snapshot
    dim_channel,             \* warehouse table dim_channel
    gcs,                     \* raw bucket: blob path -> content
    handler,                 \* the delayed-task or pipeline invocation that steps next
    parked,                  \* a second invocation in flight, waiting on a collaborator
    merge_log,               \* the last two transforms that reached the warehouse
    tracked_channels,        \* warehouse table tracked_channels (seeded)
    dim_video                \* warehouse table dim_video

warehouseVars == <<fact_video_snapshot, fact_comment, dim_video_transcript,
                   fact_channel_snapshot, dim_channel, dim_video>>
taskVars == <<warehouseVars, gcs, handler, parked, merge_log>>
vars == <<video_monitoring, queue, cloud_run_service_url, now, inv, delivered, faults,
          feed, calls, taskVars, tracked_channels>>
\* what a webhook or fan-out step leaves alone
settingVars == <<cloud_run_service_url, now, feed, tracked_channels>>
engineVars == <<calls>>

(***************************************************************************)
(* Bounds of the model.                                                    *)
(***************************************************************************)
MaxConcurrent == 2      \* webhook invocations in flight together
MaxDeliveries == 3      \* deliveries of one notification, one after the other
MaxRuns == 2            \* direct runs of enqueue_fanout
MaxFaults == 1          \* injected collaborator failures per behaviour
MaxCreateFaults == 2    \* injected failures up to which a task creation still fails
MaxCalls == 3           \* direct DiscoveryEngine calls per behaviour
MaxTicks == 1           \* hours the clock advances during a behaviour
MaxTaskDeliveries == 2  \* delayed-task deliveries and pipeline runs per behaviour
MaxCount == 3           \* largest counter the API reports
MaxIntervals == 2       \* snapshot intervals whose tasks are delivered
MaxRefreshes == 2       \* handler invocations per behaviour of the refresh pipelines
MaxLen == 3             \* longest free-text value embedded
MaxRetries == 3         \* largest max_retries a function is wrapped with
MaxComponent == 30      \* largest hour, minute or second count of a duration

Max(a, b) == IF a >= b THEN a ELSE b
Slots == 1..Max(Max(MaxConcurrent, MaxDeliveries), MaxRuns)

Videos == {"v1", "v2"}
Channels == {"UC1"}
PublishHour == 2        \* hour of the <published> element of the test feeds
StartHour == PublishHour + 1

None == {}
Some(x) == {x}

(***************************************************************************)
(* config/constants.py, config/settings.py                                 *)
(***************************************************************************)
\* FanoutSchedule.snapshot_intervals_hours
snapshot_intervals_hours == <<1, 2, 3, 4, 6, 8, 10, 12, 14, 16, 18, 20, 22, 24, 36, 48, 72>>
comment_pull_hours == <<24, 72>>
transcript_fetch_hours == 24
monitoring_window_hours == 72

(***************************************************************************)
(* utils/timestamps.py                                                     *)
(***************************************************************************)
TimeRange == 0..(PublishHour + 1)
\* datetime.isoformat() of an aware UTC datetime ends in +00:00
isoformat(t) == ToString(t) \o ":00:00+00:00"
\* the feed's own spelling of the same instant ends in Z
zulu(t) == ToString(t) \o ":00:00Z"
ValueError == -1
\* parse_iso: "Z" is replaced by "+00:00", then datetime.fromisoformat
parse_iso(raw) ==
    IF \E t \in TimeRange : raw \in {isoformat(t), zulu(t)}
    THEN CHOOSE t \in TimeRange : raw \in {isoformat(t), zulu(t)}
    ELSE ValueError
add_hours(dt, hours) == dt + hours

(***************************************************************************)
(* engines/discovery.py                                                    *)
(***************************************************************************)
\* a MERGE whose ON clause never matches (a plain INSERT)
MergeNeverMatched(table, video_id) == FALSE

\* an ON clause that looks at active rows only
MergeMatchedActiveOnly(table, video_id) ==
    \E r \in table : r.video_id = video_id /\ r.is_active

\* ON T.video_id = S.video_id
MergeMatched(table, video_id) == \E r \in table : r.video_id = video_id

\* the source row S of register_video's MERGE
RegisterRow(table, video_id, channel_id, published_at, t) ==
    [rid |-> Cardinality(table) + 1,
     video_id |-> video_id,
     channel_id |-> channel_id,
     published_at |-> published_at,
     discovered_at |-> t,
     monitoring_until |-> add_hours(published_at, monitoring_window_hours),
     first_seen_at |-> t,
     is_active |-> TRUE,
     inactive_reason |-> None]

\* a MERGE with a WHEN MATCHED THEN UPDATE branch
MergeOverwrite(table, row, matched) ==
    IF matched
    THEN [table |-> {IF r.video_id = row.video_id THEN [row EXCEPT !.rid = r.rid] ELSE r :
                        r \in table},
          affected |-> 1]
    ELSE [table |-> table \cup {row}, affected |-> 1]

\* WHEN NOT MATCHED THEN INSERT; no WHEN MATCHED clause.  The result is the
\* table and the number of affected rows.
MergeInsertOnly(table, row, matched) ==
    IF matched
    THEN [table |-> table, affected |-> 0]
    ELSE [table |-> table \cup {row}, affected |-> 1]

\* register_video as one call: the MERGE and is_new = affected > 0
register_video(table, video_id, channel_id, published_at, t) ==
    LET m == MergeInsertOnly(table,
                             RegisterRow(table, video_id, channel_id, published_at, t),
                             MergeMatched(table, video_id))
    IN  [table |-> m.table, is_new |-> m.affected > 0]

\* an existence check that looks at active rows of no video
is_video_registered_never(table, video_id) == FALSE

\* SELECT 1 ... WHERE video_id = ... LIMIT 1; len(rows) > 0
is_video_registered(table, video_id) ==
    Cardinality({r \in table : r.video_id = video_id}) > 0

\* the rows of a query in some order, as a list
RECURSIVE Rows(_)
Rows(set) ==
    IF set = {} THEN <<>>
    ELSE LET r == CHOOSE x \in set : TRUE IN <<r>> \o Rows(set \ {r})

\* a query that returns the ids of inactive videos as well
get_video_ids_any_state(table) == Rows({r.video_id : r \in table})

\* the query without DISTINCT: one id per active row
get_active_video_ids_per_row(table) ==
    LET rows == Rows({r \in table : r.is_active})
    IN  [k \in 1..Len(rows) |-> rows[k].video_id]

\* SELECT DISTINCT video_id ... WHERE is_active = TRUE
get_active_video_ids(table) == Rows({r.video_id : r \in {x \in table : x.is_active}})

\* a row of tracked_channels
TrackedRow(rid, channel_id, is_active) ==
    [rid |-> rid, channel_id |-> channel_id, is_active |-> is_active]
\* SELECT channel_id FROM tracked_channels WHERE is_active = TRUE
get_tracked_channel_ids(table) ==
    LET rows == Rows({r \in table : r.is_active})
    IN  [k \in 1..Len(rows) |-> rows[k].channel_id]

InactiveReason ==
    {"monitoring_window_expired", "video_deleted", "video_privated", "manual_stop"}

\* SET is_active = FALSE, inactive_reason = reason
Deactivated(r, reason) ==
    [r EXCEPT !.is_active = FALSE, !.inactive_reason = Some(reason)]

\* a comparison that takes the boundary too
ExpiredInclusive(r, t) == r.monitoring_until <= t

\* monitoring_until < CURRENT_TIMESTAMP()
Expired(r, t) == r.monitoring_until < t

\* UPDATE ... WHERE is_active = TRUE AND monitoring_until < CURRENT_TIMESTAMP()
expire_monitoring(table, t) ==
    LET hit == {r \in table : r.is_active /\ Expired(r, t)}
    IN  [table |-> (table \ hit)
                       \cup {Deactivated(r, "monitoring_window_expired") : r \in hit},
         affected |-> Cardinality(hit)]

\* a WHERE clause without the is_active condition
DeactivateWhereAnyState(r, video_id) == r.video_id = video_id

\* WHERE video_id = ... AND is_active = TRUE
DeactivateWhere(r, video_id) == r.video_id = video_id /\ r.is_active = TRUE

\* UPDATE ... SET is_active = FALSE, inactive_reason = reason WHERE ...
deactivate_video(table, video_id, reason) ==
    LET hit == {r \in table : DeactivateWhere(r, video_id)}
    IN  [table |-> (table \ hit) \cup {Deactivated(r, reason) : r \in hit},
         affected |-> Cardinality(hit)]

(***************************************************************************)
(* services/fanout.py                                                      *)
(***************************************************************************)
SnapshotTasks ==
    [k \in 1..Len(snapshot_intervals_hours) |->
        [kind |-> "snapshot", hours |-> snapshot_intervals_hours[k]]]
CommentTasks ==
    [k \in 1..Len(comment_pull_hours) |->
        [kind |-> "comments", hours |-> comment_pull_hours[k]]]
TranscriptTasks == <<[kind |-> "transcript", hours |-> transcript_fetch_hours]>>
\* the order in which enqueue_fanout creates its tasks
FanoutPlan == SnapshotTasks \o CommentTasks \o TranscriptTasks

\* an identifier that leaves the video out
task_id_without_video(video_id, t) ==
    IF t.kind = "transcript"
    THEN "transcript"
    ELSE t.kind \o "-" \o ToString(t.hours) \o "h"

\* an identifier that leaves the interval out
task_id_without_interval(video_id, t) == video_id \o "-" \o t.kind

task_id(video_id, t) ==
    IF t.kind = "transcript"
    THEN video_id \o "-transcript"
    ELSE video_id \o "-" \o t.kind \o "-" \o ToString(t.hours) \o "h"

\* a task scheduled from the time of discovery
BuildTaskFromNow(video_id, channel_id, published_at, t) ==
    [name |-> "queue/tasks/" \o task_id(video_id, t),
     kind |-> t.kind,
     video_id |-> video_id,
     channel_id |-> channel_id,
     published_at |-> isoformat(published_at),
     hours |-> t.hours,
     schedule_time |-> add_hours(now, t.hours)]

\* the tasks_v2.Task built by _create_task
BuildTask(video_id, channel_id, published_at, t) ==
    [name |-> "queue/tasks/" \o task_id(video_id, t),
     kind |-> t.kind,
     video_id |-> video_id,
     channel_id |-> channel_id,
     published_at |-> isoformat(published_at),
     hours |-> t.hours,
     schedule_time |-> add_hours(published_at, t.hours)]

\* an enqueue_fanout without the guard on the service URL
SkipsEnqueueNever(url) == FALSE
\* if not settings.cloud_run_service_url: return
SkipsEnqueue(url) == url = ""

\* Cloud Tasks create_task: a name already in the queue is rejected
QueueNames(q) == {t.name : t \in BagToSet(q)}
CloudTasksCreate(q, task) ==
    IF task.name \in QueueNames(q)
    THEN [queue |-> q, outcome |-> "AlreadyExists"]
    ELSE [queue |-> q (+) SetToBag({task}), outcome |-> "created"]

\* a try/except without the AlreadyExists branch
CreateTaskReturnStrict(outcome) == IF outcome = "created" THEN 1 ELSE 0

\* _create_task's try/except: 1 on success and on AlreadyExists, 0 otherwise
CreateTaskReturn(outcome) ==
    CASE outcome = "created" -> 1
      [] outcome = "AlreadyExists" -> 1
      [] OTHER -> 0

\* a loop that stops at the first task that could not be created
FanoutCountAbort(r, success) ==
    IF success = 1
    THEN [r EXCEPT !.ok = @ + 1, !.idx = @ + 1]
    ELSE [r EXCEPT !.failed = @ + 1, !.idx = Len(FanoutPlan)]

\* ok += success; failed += 1 - success; the loop moves to the next task
FanoutCount(r, success) ==
    [r EXCEPT !.ok = @ + success, !.failed = @ + (1 - success), !.idx = @ + 1]

(***************************************************************************)
(* engines/transforms/base.py and the warehouse's MERGE                    *)
(***************************************************************************)
HoursPerDay == 24
\* datetime.date(): the calendar day of an instant
date(t) == t \div HoursPerDay
\* hours_since and days_since of two instants
hours_since(start, end) == end - start
days_since(start, end) == (end - start) \div HoursPerDay

Val(x) == CHOOSE v \in x : TRUE

\* safe_int: None, "" and text that is no number give None; "12" gives 12
safe_int(value) ==
    IF value = None
    THEN None
    ELSE IF \E n \in 0..MaxCount : ToString(n) = Val(value)
    THEN Some(CHOOSE n \in 0..MaxCount : ToString(n) = Val(value))
    ELSE None

\* cur - prev when both are present, else None
Delta(cur, prev) ==
    IF cur # None /\ prev # None THEN Some(Val(cur) - Val(prev)) ELSE None

\* the values a row has in the columns of a key
KeyOf(r, key) == [c \in key |-> r[c]]
\* UPDATE SET c = S.c for the columns c of set
UpdateRow(t, s, set) == [c \in DOMAIN t |-> IF c \in set THEN s[c] ELSE t[c]]

\* MERGE T USING S ON T.key = S.key
\*   WHEN MATCHED THEN UPDATE SET set  WHEN NOT MATCHED THEN INSERT
\* source is the sequence of rows of S; every source row that matches no
\* target row is inserted.
MergeUpsert(table, source, key, set) ==
    LET matched == {t \in table :
                       \E k \in DOMAIN source : KeyOf(source[k], key) = KeyOf(t, key)}
        Src(t) == source[CHOOSE k \in DOMAIN source :
                             KeyOf(source[k], key) = KeyOf(t, key)]
        fresh == {k \in DOMAIN source :
                     \A t \in table : KeyOf(t, key) # KeyOf(source[k], key)}
        inserted == {[source[k] EXCEPT !.rid = Cardinality(table) + k] : k \in fresh}
    IN  [table |-> (table \ matched) \cup {UpdateRow(t, Src(t), set) : t \in matched}
                       \cup inserted,
         affected |-> Cardinality(matched) + Cardinality(inserted)]

(***************************************************************************)
(* engines/transforms/snapshots.py                                         *)
(***************************************************************************)
\* statistics of a videos.list item: counters arrive as text or not at all
VideoStatistics ==
    [viewCount : {None, Some("1"), Some("3")}, likeCount : {Some("2")},
     commentCount : {Some("")}]
\* responses of fetch_video_stats: no item, or one item with or without
\* its statistics part
StatsResponses ==
    {<<>>} \cup {<<[statistics |-> s]>> : s \in {None} \cup {Some(x) : x \in VideoStatistics}}

interval_to_snapshot_type(hours) == ToString(hours) \o "h"

\* _get_previous_snapshot: ORDER BY actual_captured_at DESC LIMIT 1.  The
\* result is None, or one of the rows that share the latest capture time.
PreviousSnapshots(table, video_id) ==
    LET of == {r \in table : r.video_id = video_id}
    IN  IF of = {}
        THEN {None}
        ELSE {Some(r) : r \in {x \in of : \A y \in of :
                                   y.actual_captured_at <= x.actual_captured_at}}

\* a row labelled by the hours that have actually elapsed since publication
SnapshotRowElapsed(raw_item, video_id, channel_id, interval_hours, published_at, captured_at, prev) ==
    LET stats == raw_item.statistics
        view_count == IF stats # None THEN safe_int(Val(stats).viewCount) ELSE None
        like_count == IF stats # None THEN safe_int(Val(stats).likeCount) ELSE None
        comment_count == IF stats # None THEN safe_int(Val(stats).commentCount) ELSE None
    IN  [rid |-> 0,
         snapshot_date |-> date(captured_at),
         snapshot_ts |-> captured_at,
         actual_captured_at |-> captured_at,
         snapshot_type |-> interval_to_snapshot_type(hours_since(published_at, captured_at)),
         video_id |-> video_id,
         channel_id |-> channel_id,
         view_count |-> view_count,
         like_count |-> like_count,
         comment_count |-> comment_count,
         views_delta |-> IF prev # None
                         THEN Delta(view_count, Val(prev).view_count) ELSE None,
         likes_delta |-> IF prev # None
                         THEN Delta(like_count, Val(prev).like_count) ELSE None,
         comments_delta |-> IF prev # None
                            THEN Delta(comment_count, Val(prev).comment_count)
                            ELSE None,
         hours_since_publish |-> hours_since(published_at, captured_at),
         actual_hours_since_publish |-> hours_since(published_at, captured_at),
         days_since_publish |-> days_since(published_at, captured_at)]

\* SnapshotTransformer.transform up to the MERGE: the FactVideoSnapshot row
SnapshotRow(raw_item, video_id, channel_id, interval_hours, published_at, captured_at, prev) ==
    LET stats == raw_item.statistics
        view_count == IF stats # None THEN safe_int(Val(stats).viewCount) ELSE None
        like_count == IF stats # None THEN safe_int(Val(stats).likeCount) ELSE None
        comment_count == IF stats # None THEN safe_int(Val(stats).commentCount) ELSE None
    IN  [rid |-> 0,
         snapshot_date |-> date(captured_at),
         snapshot_ts |-> captured_at,
         actual_captured_at |-> captured_at,
         snapshot_type |-> interval_to_snapshot_type(interval_hours),
         video_id |-> video_id,
         channel_id |-> channel_id,
         view_count |-> view_count,
         like_count |-> like_count,
         comment_count |-> comment_count,
         views_delta |-> IF prev # None
                         THEN Delta(view_count, Val(prev).view_count) ELSE None,
         likes_delta |-> IF prev # None
                         THEN Delta(like_count, Val(prev).like_count) ELSE None,
         comments_delta |-> IF prev # None
                            THEN Delta(comment_count, Val(prev).comment_count)
                            ELSE None,
         hours_since_publish |-> interval_hours,
         actual_hours_since_publish |-> hours_since(published_at, captured_at),
         days_since_publish |-> days_since(published_at, captured_at)]

\* a key without the slot label
SnapshotKeyVideoOnly == {"video_id"}

\* ON T.video_id = S.video_id AND T.snapshot_type = S.snapshot_type
SnapshotKey == {"video_id", "snapshot_type"}
\* WHEN MATCHED THEN UPDATE SET every column but the two of the key
SnapshotUpdate ==
    {"snapshot_date", "snapshot_ts", "actual_captured_at", "channel_id", "view_count",
     "like_count", "comment_count", "views_delta", "likes_delta", "comments_delta",
     "hours_since_publish", "actual_hours_since_publish", "days_since_publish"}
merge_snapshot(table, row) == MergeUpsert(table, <<row>>, SnapshotKey, SnapshotUpdate)

(***************************************************************************)
(* engines/transforms/comments.py                                          *)
(***************************************************************************)
\* a comment resource with its snippet: author, text, likes and the times
\* of publication and of the last edit as the API spells them
Reply(id, name, text, likes) ==
    [id |-> id, has_snippet |-> TRUE, authorDisplayName |-> name,
     authorChannelId |-> Some("UC-" \o name), textDisplay |-> text,
     likeCount |-> likes, publishedAt |-> Some(zulu(PublishHour)),
     updatedAt |-> Some(zulu(PublishHour))]
Thread(id, name, text, likes, replies) ==
    [id |-> id, has_snippet |-> TRUE, authorDisplayName |-> name,
     authorChannelId |-> Some("UC-" \o name), textDisplay |-> text,
     likeCount |-> likes, publishedAt |-> Some(zulu(PublishHour)),
     updatedAt |-> Some(zulu(PublishHour)),
     totalReplyCount |-> Len(replies), replies |-> replies]
\* a reply whose snippet part is missing
BareReply(id) ==
    [id |-> id, has_snippet |-> FALSE, authorDisplayName |-> "",
     authorChannelId |-> None, textDisplay |-> "", likeCount |-> 0,
     publishedAt |-> None, updatedAt |-> None]
\* a thread whose snippet part is missing
BareThread(id) ==
    [id |-> id, has_snippet |-> FALSE, authorDisplayName |-> "",
     authorChannelId |-> None, textDisplay |-> "", likeCount |-> 0,
     publishedAt |-> None, updatedAt |-> None,
     totalReplyCount |-> 0, replies |-> <<>>]
\* responses of fetch_comment_threads; the platform's comment ids are
\* distinct within a response.  Between two pulls a comment can gain likes
\* and replies, be edited, change its rank, and its author can be renamed;
\* the last response reports comment c1 edited an hour after its publication,
\* without the author's channel and with another publication time.
CommentResponses ==
    { <<>>,
      <<Thread("c1", "ann", "first", 0, <<>>)>>,
      <<Thread("c1", "ann", "first", 1, <<Reply("c1.r1", "bob", "re", 0)>>)>>,
      <<BareThread("c3"), Thread("c2", "cy", "second", 0, <<BareReply("c2.r1")>>),
        [Thread("c1", "anna", "first (edited)", 0, <<>>)
            EXCEPT !.authorChannelId = None,
                   !.publishedAt = Some(zulu(PublishHour + 1)),
                   !.updatedAt = Some(zulu(PublishHour + 1))]>> }

\* parse_iso(x) if x else None
parse_optional(raw) ==
    IF raw = None \/ raw = Some("") THEN None ELSE Some(parse_iso(Val(raw)))

\* a row that does not tell a reply from a top-level comment
CommentRowUnthreaded(c, video_id, channel_id, parent, replies, pulled_at, rank) ==
    [rid |-> 0,
     comment_id |-> c.id,
     video_id |-> video_id,
     channel_id |-> channel_id,
     parent_comment_id |-> None,
     is_reply |-> FALSE,
     commenter_channel_id |-> c.authorChannelId,
     commenter_name |-> c.authorDisplayName,
     comment_text |-> c.textDisplay,
     like_count |-> c.likeCount,
     reply_count |-> replies,
     published_at |-> parse_optional(c.publishedAt),
     updated_at |-> parse_optional(c.updatedAt),
     pulled_at |-> pulled_at,
     pull_date |-> date(pulled_at),
     sample_strategy |-> "relevance",
     sample_rank |-> rank]

\* FactComment built from the snippet of a top-level comment or of a reply
CommentRow(c, video_id, channel_id, parent, replies, pulled_at, rank) ==
    [rid |-> 0,
     comment_id |-> c.id,
     video_id |-> video_id,
     channel_id |-> channel_id,
     parent_comment_id |-> parent,
     is_reply |-> parent # None,
     commenter_channel_id |-> c.authorChannelId,
     commenter_name |-> c.authorDisplayName,
     comment_text |-> c.textDisplay,
     like_count |-> c.likeCount,
     reply_count |-> replies,
     published_at |-> parse_optional(c.publishedAt),
     updated_at |-> parse_optional(c.updatedAt),
     pulled_at |-> pulled_at,
     pull_date |-> date(pulled_at),
     sample_strategy |-> "relevance",
     sample_rank |-> rank]

\* _flatten_threads: rank counts every thread, also the skipped ones
RECURSIVE flatten_threads(_, _, _, _, _)
flatten_threads(threads, rank, video_id, channel_id, pulled_at) ==
    IF threads = <<>>
    THEN <<>>
    ELSE LET th == Head(threads)
             rest == flatten_threads(Tail(threads), rank + 1, video_id, channel_id,
                                     pulled_at)
             replies == SelectSeq(th.replies, LAMBDA r : r.has_snippet)
         IN  IF ~th.has_snippet
             THEN rest
             ELSE <<CommentRow(th, video_id, channel_id, None, th.totalReplyCount,
                               pulled_at, Some(rank))>>
                  \o [k \in 1..Len(replies) |->
                        CommentRow(replies[k], video_id, channel_id, Some(th.id), 0,
                                   pulled_at, None)]
                  \o rest

\* ON T.comment_id = S.comment_id
CommentKey == {"comment_id"}
\* a merge that overwrites every column of a matched row
CommentUpdateAll ==
    {"video_id", "channel_id", "parent_comment_id", "is_reply",
     "commenter_channel_id", "commenter_name", "comment_text", "like_count",
     "reply_count", "published_at", "updated_at", "pulled_at", "pull_date",
     "sample_strategy", "sample_rank"}
\* WHEN MATCHED THEN UPDATE SET like_count, reply_count, updated_at,
\* pulled_at, pull_date, comment_text
CommentUpdate ==
    {"like_count", "reply_count", "updated_at", "pulled_at", "pull_date",
     "comment_text"}
merge_comments(table, rows) == MergeUpsert(table, rows, CommentKey, CommentUpdate)

\* CommentTransformer.transform: nothing is merged when no row comes out
comment_transform(table, raw_items, video_id, channel_id, pulled_at) ==
    LET rows == flatten_threads(raw_items, 1, video_id, channel_id, pulled_at)
    IN  IF raw_items = <<>> \/ rows = <<>>
        THEN [table |-> table, affected |-> 0, merges |-> 0]
        ELSE [table |-> merge_comments(table, rows).table,
              affected |-> merge_comments(table, rows).affected,
              merges |-> 1]

(***************************************************************************)
(* engines/transforms/transcripts.py, data_sources/gcs_paths.py            *)
(***************************************************************************)
\* results of fetch_transcript: None, or the text as its sequence of words
TranscriptResponses == {None, Some(<<>>), Some(<<"hello", "world">>)}
\* len(text.split())
word_count(text) == Len(text)

video_snapshot_path(video_id, ts) ==
    "video_snapshot_stats/" \o ToString(date(ts)) \o "/" \o video_id \o "_"
        \o isoformat(ts) \o ".json"
video_comments_path(video_id, ts) ==
    "video_comments/" \o video_id \o "/" \o video_id \o "_" \o isoformat(ts)
        \o "_1.json"
video_transcript_path(video_id) ==
    "video_transcripts/" \o video_id \o "/" \o video_id \o "_en.txt"
channel_metadata_path(channel_id, ts) ==
    "channel_metadata/" \o channel_id \o "/" \o channel_id \o "_" \o isoformat(ts)
        \o ".json"
gcs_uri(path) == "gs://bucket/" \o path

TranscriptRow(transcript_text, video_id, uri, fetched_at) ==
    [rid |-> 0,
     video_id |-> video_id,
     transcript_source |-> "auto_generated",
     gcs_uri |-> uri,
     word_count |-> word_count(transcript_text),
     fetched_at |-> fetched_at]

\* ON T.video_id = S.video_id
TranscriptKey == {"video_id"}
TranscriptUpdate == {"transcript_source", "gcs_uri", "word_count", "fetched_at"}
merge_transcript(table, row) ==
    MergeUpsert(table, <<row>>, TranscriptKey, TranscriptUpdate)

(***************************************************************************)
(* engines/transforms/channels.py                                          *)
(***************************************************************************)
tracked_channel_ids == <<"UC1">>
ChannelStatistics ==
    [viewCount : {Some("1"), Some("3"), Some("")}, subscriberCount : {Some("2")},
     videoCount : {Some("")}]
\* responses of fetch_channels_batched for the tracked channel
ChannelResponses ==
    {<<>>} \cup {<<[id |-> tracked_channel_ids[1], statistics |-> s]>> :
                    s \in {None} \cup {Some(x) : x \in ChannelStatistics}}

DimChannelRow(item, t) ==
    LET stats == item.statistics
    IN  [rid |-> 0,
         channel_id |-> item.id,
         view_count |-> IF stats # None THEN safe_int(Val(stats).viewCount) ELSE None,
         subscriber_count |->
             IF stats # None THEN safe_int(Val(stats).subscriberCount) ELSE None,
         video_count |-> IF stats # None THEN safe_int(Val(stats).videoCount) ELSE None,
         updated_at |-> t]
DimChannelKey == {"channel_id"}
DimChannelUpdate == {"view_count", "subscriber_count", "video_count", "updated_at"}
merge_dim_channels(table, rows) ==
    MergeUpsert(table, rows, DimChannelKey, DimChannelUpdate)

\* _get_previous_channel_snapshot: ORDER BY snapshot_ts DESC LIMIT 1
PreviousChannelSnapshot(table, channel_id) ==
    LET of == {r \in table : r.channel_id = channel_id}
    IN  IF of = {}
        THEN None
        ELSE Some(CHOOSE x \in of : \A y \in of : y.snapshot_ts <= x.snapshot_ts)

\* the deltas are computed only when a previous row exists and the view
\* count is present
ChannelSnapshotRow(item, t, prev) ==
    LET stats == Val(item.statistics)
        view_count == safe_int(stats.viewCount)
        subscriber_count == safe_int(stats.subscriberCount)
        video_count == safe_int(stats.videoCount)
        has == prev # None /\ view_count # None
    IN  [rid |-> 0,
         snapshot_date |-> date(t),
         snapshot_ts |-> t,
         channel_id |-> item.id,
         view_count |-> view_count,
         subscriber_count |-> subscriber_count,
         video_count |-> video_count,
         views_delta |-> IF has THEN Delta(view_count, Val(prev).view_count) ELSE None,
         subs_delta |-> IF has THEN Delta(subscriber_count, Val(prev).subscriber_count)
                        ELSE None,
         videos_delta |-> IF has THEN Delta(video_count, Val(prev).video_count)
                          ELSE None]

\* the items that have statistics, in order
WithStatistics(items) == SelectSeq(items, LAMBDA item : item.statistics # None)

\* _build_channel_snapshots: items without statistics are skipped; prevs are
\* the results of _get_previous_channel_snapshot for the others, in order
build_channel_snapshots(items, t, prevs) ==
    [k \in 1..Len(WithStatistics(items)) |->
        ChannelSnapshotRow(WithStatistics(items)[k], t, prevs[k])]

\* ON T.snapshot_date = S.snapshot_date AND T.channel_id = S.channel_id
ChannelSnapshotKey == {"snapshot_date", "channel_id"}
ChannelSnapshotUpdate ==
    {"snapshot_ts", "view_count", "subscriber_count", "video_count", "views_delta",
     "subs_delta", "videos_delta"}
merge_channel_snapshots(table, rows) ==
    MergeUpsert(table, rows, ChannelSnapshotKey, ChannelSnapshotUpdate)

(***************************************************************************)
(* engines/transforms/videos.py                                            *)
(***************************************************************************)
VideoSnippets == [channelId : {Some("UC1")}, title : {Some("a"), Some("b")}]
\* the videos.list items of one video: with or without its snippet part
VideoItems(id) ==
    [id : {id}, snippet : {None} \cup {Some(x) : x \in VideoSnippets},
     statistics : {Some([viewCount |-> Some("1")])}]
\* responses of fetch_videos_batched: no item, or one item per requested id
VideoResponses(ids) ==
    {<<>>} \cup {r \in [1..Len(ids) -> UNION {VideoItems(ids[k]) : k \in 1..Len(ids)}] :
                    \A k \in 1..Len(ids) : r[k].id = ids[k]}

video_metadata_path(video_id, ts) ==
    "video_metadata/" \o video_id \o "/" \o video_id \o "_" \o isoformat(ts) \o ".json"

\* _build_dim_videos: one DimVideo per item
DimVideoRow(item, t) ==
    LET snippet == item.snippet
        stats == item.statistics
    IN  [rid |-> 0,
         video_id |-> item.id,
         channel_id |-> IF snippet # None /\ Val(snippet).channelId # None
                        THEN Val(Val(snippet).channelId) ELSE "",
         title |-> IF snippet # None THEN Val(snippet).title ELSE None,
         view_count |-> IF stats # None THEN safe_int(Val(stats).viewCount) ELSE None,
         first_seen_at |-> t,
         updated_at |-> t]
\* ON T.video_id = S.video_id
DimVideoKey == {"video_id"}
\* an update set that also overwrites first_seen_at
DimVideoUpdateAll ==
    {"channel_id", "title", "view_count", "first_seen_at", "updated_at"}
\* WHEN MATCHED THEN UPDATE SET every column but video_id and first_seen_at
DimVideoUpdate == {"channel_id", "title", "view_count", "updated_at"}
merge_dim_videos(table, rows) == MergeUpsert(table, rows, DimVideoKey, DimVideoUpdate)

\* VideoTransformer.transform
video_transform(table, raw_items, t) ==
    IF raw_items = <<>>
    THEN [table |-> table, merges |-> 0]
    ELSE [table |-> merge_dim_videos(table,
                        [k \in 1..Len(raw_items) |-> DimVideoRow(raw_items[k], t)]).table,
          merges |-> 1]

(***************************************************************************)
(* services/snapshot_handler.py, services/pipelines.py: one invocation     *)
(***************************************************************************)
\* a handler that merges before it writes the blob
HandlerStepsMergeFirst == <<"fetch", "transform", "upload", "respond">>

\* the order of a handler's calls: API, blob store, warehouse
HandlerSteps == <<"fetch", "upload", "transform", "respond">>
StepAfter(step) ==
    HandlerSteps[1 + CHOOSE k \in 1..(Len(HandlerSteps) - 1) : HandlerSteps[k] = step]

NoHandler ==
    [pc |-> "idle", kind |-> "", video_id |-> "", channel_id |-> "", interval |-> 0,
     published_at |-> 0, at |-> 0, response |-> <<>>, uploaded |-> <<>>,
     blob_failed |-> FALSE, raised |-> "", merges |-> 0, status |-> 0, seq |-> 0,
     stmt |-> 0, prevs |-> <<>>, ts |-> 0, matched |-> FALSE]

(***************************************************************************)
(* services/webhook.py: the notification bodies and their parsing          *)
(***************************************************************************)
Malformed == {"empty", "not_utf8", "bad_xml", "no_entry", "missing_ids", "blank_ids"}
PublishedTexts == {"", zulu(PublishHour), "yesterday"}
FeedVideos == {"v1"}
\* (el.text or "").strip()
strip(text) == IF text = " " THEN "" ELSE text
\* bodies that are empty, not UTF-8, not XML, without an entry or without
\* the id elements; entries in which the text of an id element is missing or
\* blank; well-formed entries
Bodies ==
    [shape : Malformed \ {"blank_ids"}, videoId : {""}, channelId : {""},
     published : {""}]
    \cup {b \in [shape : {"blank_ids"}, videoId : {"", " "} \cup FeedVideos,
                  channelId : {""} \cup Channels, published : {""}] :
              strip(b.videoId) = "" \/ strip(b.channelId) = ""}
    \cup [shape : {"entry"}, videoId : FeedVideos, channelId : Channels,
          published : PublishedTexts]

\* the early returns of webhook_notify: empty body, ParseError, no entry, no
\* id element, empty video_id or channel_id
ReturnsEarly(body) ==
    \/ body.shape \in {"empty", "bad_xml", "no_entry", "missing_ids"}
    \/ strip(body.videoId) = ""
    \/ strip(body.channelId) = ""

\* webhook_notify up to the construction of the engine: what the handler
\* does with the body, and the values it extracts.  body.decode("utf-8")
\* raises UnicodeDecodeError, which is no ET.ParseError, on other bytes
webhook_parse(body, t) ==
    IF body.shape = "not_utf8"
    THEN [next |-> "raise", published_at |-> 0]
    ELSE IF ReturnsEarly(body)
    THEN [next |-> "return", published_at |-> 0]
    ELSE IF body.published = ""
    THEN [next |-> "proceed", published_at |-> t]
    ELSE IF parse_iso(body.published) = ValueError
    THEN [next |-> "raise", published_at |-> 0]
    ELSE [next |-> "proceed", published_at |-> parse_iso(body.published)]

\* an unhandled exception leaves FastAPI to answer 500
HTTP_OK == 200
HTTP_ERROR == 500

Idle ==
    [pc |-> "idle", entry |-> "", video_id |-> "", channel_id |-> "",
     published_at |-> 0, matched |-> FALSE, idx |-> 0, ok |-> 0, failed |-> 0,
     issued |-> <<>>, status |-> 0, seq |-> 0, discovered_at |-> 0,
     called_register |-> FALSE, called_fanout |-> FALSE, detected |-> FALSE,
     create_errors |-> 0, already_exists |-> 0, after_abandon |-> FALSE]

InFlight(i) == inv[i].pc \notin {"idle", "done", "abandoned"}
Respond(r, status) == [r EXCEPT !.pc = "done", !.status = status]

InitState ==
    /\ queue = EmptyBag
    /\ cloud_run_service_url \in {"", "https://svc"}
    /\ inv = [i \in Slots |-> Idle]
    /\ delivered = 0
    /\ faults = 0
    /\ feed \in Bodies
    /\ calls = <<>>
    /\ fact_video_snapshot = {}
    /\ fact_comment = {}
    /\ dim_video_transcript = {}
    /\ fact_channel_snapshot = {}
    /\ dim_channel = {}
    /\ gcs = <<>>
    /\ handler = NoHandler
    /\ parked = NoHandler
    /\ merge_log = <<>>
    /\ dim_video = {}

\* an empty video_monitoring table and the seeded tracked channel
InitBase ==
    /\ InitState
    /\ video_monitoring = {}
    /\ tracked_channels = {TrackedRow(1, tracked_channel_ids[1], TRUE)}

InitAll ==
    /\ InitBase
    /\ now = StartHour

(***************************************************************************)
(* webhook_notify, one action per suspension point                         *)
(***************************************************************************)
\* POST /webhook arrives; the body is parsed (webhook.py 45-80)
Receive(i, body) ==
    /\ inv[i].pc = "idle"
    /\ LET p == webhook_parse(body, now)
           r == [inv[i] EXCEPT !.entry = "webhook", !.seq = delivered + 1,
                               !.after_abandon =
                                   \E j \in Slots : inv[j].pc = "abandoned",
                               !.video_id = strip(body.videoId),
                               !.channel_id = strip(body.channelId),
                               !.published_at = p.published_at]
       IN  inv' = [inv EXCEPT ![i] =
                CASE p.next = "return" -> Respond(r, HTTP_OK)
                  [] p.next = "raise" -> Respond(r, HTTP_ERROR)
                  [] OTHER -> [r EXCEPT !.pc = "check"]]
    /\ delivered' = delivered + 1
    /\ UNCHANGED <<video_monitoring, queue, faults, settingVars, engineVars, taskVars>>

\* engine.is_video_registered(video_id) returns (webhook.py 82-84); for a
\* video that is not registered register_video takes the clock and sends its
\* MERGE (discovery.py 44-76)
CheckRegistered(i) ==
    /\ inv[i].pc = "check"
    /\ inv' = [inv EXCEPT ![i] =
            IF is_video_registered(video_monitoring, inv[i].video_id)
            THEN Respond([@ EXCEPT !.detected = TRUE], HTTP_OK)
            ELSE [@ EXCEPT !.pc = "register", !.discovered_at = now]]
    /\ UNCHANGED <<video_monitoring, queue, delivered, faults, settingVars, engineVars, taskVars>>

\* the warehouse query of is_video_registered raises
CheckRegisteredFails(i) ==
    /\ inv[i].pc = "check"
    /\ faults < MaxFaults
    /\ faults' = faults + 1
    /\ inv' = [inv EXCEPT ![i] = Respond(@, HTTP_ERROR)]
    /\ UNCHANGED <<video_monitoring, queue, delivered, settingVars, engineVars, taskVars>>

\* register_video: the MERGE evaluates its ON clause.  Two MERGEs of concurrent
\* invocations may both find no match (discovery.py 105-107).
MergeMatch(i) ==
    /\ inv[i].pc = "register"
    /\ inv' = [inv EXCEPT ![i] =
            [@ EXCEPT !.pc = "merge", !.called_register = TRUE,
                      !.matched = MergeMatched(video_monitoring, inv[i].video_id)]]
    /\ UNCHANGED <<video_monitoring, queue, delivered, faults, settingVars, engineVars, taskVars>>

\* register_video: the MERGE inserts, or not; is_new decides on the fan-out
\* (webhook.py 86-91, fanout.py 36-38)
MergeApply(i) ==
    /\ inv[i].pc = "merge"
    /\ LET r == inv[i]
           m == MergeInsertOnly(video_monitoring,
                    RegisterRow(video_monitoring, r.video_id, r.channel_id,
                                r.published_at, r.discovered_at),
                    r.matched)
       IN  /\ video_monitoring' = m.table
           /\ inv' = [inv EXCEPT ![i] =
                IF m.affected > 0
                THEN [@ EXCEPT !.pc = "fanout", !.called_fanout = TRUE]
                ELSE Respond(@, HTTP_OK)]
    /\ UNCHANGED <<queue, delivered, faults, settingVars, engineVars, taskVars>>

\* run_merge raises
RegisterFails(i) ==
    /\ inv[i].pc \in {"register", "merge"}
    /\ faults < MaxFaults
    /\ faults' = faults + 1
    /\ inv' = [inv EXCEPT ![i] = Respond([@ EXCEPT !.called_register = TRUE], HTTP_ERROR)]
    /\ UNCHANGED <<video_monitoring, queue, delivered, settingVars, engineVars, taskVars>>

\* enqueue_fanout: one _create_task call that reaches the queue
CreateTask(i) ==
    /\ inv[i].pc = "fanout"
    /\ ~SkipsEnqueue(cloud_run_service_url)
    /\ inv[i].idx < Len(FanoutPlan)
    /\ LET r == inv[i]
           t == FanoutPlan[r.idx + 1]
           c == CloudTasksCreate(queue,
                    BuildTask(r.video_id, r.channel_id, r.published_at, t))
       IN  /\ queue' = c.queue
           /\ inv' = [inv EXCEPT ![i] =
                FanoutCount([r EXCEPT !.issued = Append(@, task_id(r.video_id, t)),
                                      !.already_exists =
                                          @ + (IF c.outcome = "AlreadyExists" THEN 1 ELSE 0)],
                            CreateTaskReturn(c.outcome))]
    /\ UNCHANGED <<video_monitoring, delivered, faults, settingVars, engineVars, taskVars>>

\* enqueue_fanout: one _create_task call that raises another error
CreateTaskFails(i) ==
    /\ inv[i].pc = "fanout"
    /\ ~SkipsEnqueue(cloud_run_service_url)
    /\ inv[i].idx < Len(FanoutPlan)
    /\ faults < MaxCreateFaults
    /\ faults' = faults + 1
    /\ LET r == inv[i]
           t == FanoutPlan[r.idx + 1]
       IN  inv' = [inv EXCEPT ![i] =
                FanoutCount([r EXCEPT !.issued = Append(@, task_id(r.video_id, t)),
                                      !.create_errors = @ + 1],
                            CreateTaskReturn("Unavailable"))]
    /\ UNCHANGED <<video_monitoring, queue, delivered, settingVars, engineVars, taskVars>>

\* enqueue_fanout returns (all tasks attempted, or no service URL) and the
\* caller goes on: the webhook answers 200
FanoutReturn(i) ==
    /\ inv[i].pc = "fanout"
    /\ SkipsEnqueue(cloud_run_service_url) \/ inv[i].idx = Len(FanoutPlan)
    /\ inv' = [inv EXCEPT ![i] = Respond(@, HTTP_OK)]
    /\ UNCHANGED <<video_monitoring, queue, delivered, faults, settingVars, engineVars, taskVars>>

\* the request times out or the instance is stopped: the invocation ends
\* where it is, without a response
Abandon(i) ==
    /\ InFlight(i)
    /\ inv' = [inv EXCEPT ![i].pc = "abandoned"]
    /\ UNCHANGED <<video_monitoring, queue, delivered, faults, settingVars, engineVars, taskVars>>

\* time passes
TickFrom(start) ==
    /\ now < start + MaxTicks
    /\ now' = now + 1
    /\ UNCHANGED <<video_monitoring, queue, cloud_run_service_url, feed, inv, delivered,
                   faults, calls, taskVars, tracked_channels>>
Tick == TickFrom(StartHour)

(***************************************************************************)
(* Deliveries and redeliveries of one notification, concurrently, with     *)
(* failing collaborators and abandoned invocations, while time passes.     *)
(***************************************************************************)
Init == InitAll

\* the loops of two fan-outs that schedule from different publish times run
\* one after the other here; SpecRace has the loops of concurrent fan-outs
\* interleave
Creating(j) ==
    inv[j].pc = "fanout" /\ 0 < inv[j].idx /\ inv[j].idx < Len(FanoutPlan)
OneSchedule(i) ==
    \A j \in Slots \ {i} : Creating(j) => inv[j].published_at = inv[i].published_at

Next ==
    \/ \E i \in 1..MaxConcurrent :
        \/ /\ IF i = 1 THEN TRUE ELSE inv[i - 1].pc # "idle"
           /\ Receive(i, feed)
        \/ CheckRegistered(i)
        \/ CheckRegisteredFails(i)
        \/ MergeMatch(i)
        \/ MergeApply(i)
        \/ RegisterFails(i)
        \/ OneSchedule(i) /\ CreateTask(i)
        \/ OneSchedule(i) /\ faults < MaxFaults /\ CreateTaskFails(i)
        \/ FanoutReturn(i)
        \/ Abandon(i)
    \/ Tick

Spec == Init /\ [][Next]_vars

(***************************************************************************)
(* Concurrent deliveries of one notification, every collaborator working.  *)
(***************************************************************************)
NextRace ==
    \E i \in 1..MaxConcurrent :
        \/ /\ IF i = 1 THEN TRUE ELSE inv[i - 1].pc # "idle"
           /\ Receive(i, feed)
        \/ CheckRegistered(i)
        \/ MergeMatch(i)
        \/ MergeApply(i)
        \/ CreateTask(i)
        \/ FanoutReturn(i)

SpecRace == Init /\ [][NextRace]_vars

(***************************************************************************)
(* Deliveries of one notification that do not overlap, every collaborator  *)
(* working.                                                                *)
(***************************************************************************)
NextSequential ==
    \E i \in 1..MaxDeliveries :
        \/ /\ \A j \in Slots : ~InFlight(j)
           /\ IF i = 1 THEN TRUE ELSE inv[i - 1].pc # "idle"
           /\ Receive(i, feed)
        \/ CheckRegistered(i)
        \/ MergeMatch(i)
        \/ MergeApply(i)
        \/ CreateTask(i)
        \/ FanoutReturn(i)

SpecSequential == Init /\ [][NextSequential]_vars

(***************************************************************************)
(* enqueue_fanout called directly, one run after the other, against a      *)
(* queue whose create_task may fail.                                       *)
(***************************************************************************)
CallFanout(i, video_id, channel_id, published_at) ==
    /\ inv[i].pc = "idle"
    /\ \A j \in Slots : ~InFlight(j)
    /\ inv' = [inv EXCEPT ![i] =
            [@ EXCEPT !.pc = "fanout", !.entry = "enqueue_fanout",
                      !.seq = delivered + 1, !.called_fanout = TRUE,
                      !.video_id = video_id, !.channel_id = channel_id,
                      !.published_at = published_at]]
    /\ delivered' = delivered + 1
    /\ UNCHANGED <<video_monitoring, queue, faults, settingVars, engineVars, taskVars>>

InitFanout ==
    /\ InitAll
    /\ feed.shape = "empty"

NextFanout ==
    \E i \in 1..MaxRuns :
        \/ \E v \in Videos, c \in Channels :
              /\ IF i = 1 THEN TRUE ELSE inv[i - 1].pc # "idle"
              /\ CallFanout(i, v, c, PublishHour)
        \/ CreateTask(i)
        \/ CreateTaskFails(i)
        \/ FanoutReturn(i)

SpecFanout == InitFanout /\ [][NextFanout]_vars

(***************************************************************************)
(* enqueue_fanout called for videos published at different hours, at       *)
(* different times after their publication.                                *)
(***************************************************************************)
NextSchedule ==
    \/ \E i \in 1..MaxRuns :
          \/ \E v \in Videos, c \in Channels, p \in {PublishHour, PublishHour + 1} :
                /\ IF i = 1 THEN TRUE ELSE inv[i - 1].pc # "idle"
                /\ CallFanout(i, v, c, p)
          \/ CreateTask(i)
          \/ FanoutReturn(i)
    \/ Tick

SpecSchedule == InitFanout /\ [][NextSchedule]_vars

(***************************************************************************)
(* DiscoveryEngine called directly, one call after the other.              *)
(***************************************************************************)
CallRegisterVideo(video_id, channel_id, published_at) ==
    /\ Len(calls) < MaxCalls
    /\ LET r == register_video(video_monitoring, video_id, channel_id, published_at, now)
       IN  /\ video_monitoring' = r.table
           /\ calls' = Append(calls, [op |-> "register_video", video_id |-> video_id,
                                      channel_id |-> channel_id,
                                      published_at |-> published_at,
                                      reason |-> "", at |-> now,
                                      result |-> r.is_new])
    /\ UNCHANGED <<queue, inv, delivered, faults, settingVars, taskVars>>

InitDiscovery ==
    /\ InitAll
    /\ feed.shape = "empty"
    /\ cloud_run_service_url = ""

NextDiscovery ==
    \/ \E v \in Videos, c \in Channels, p \in {PublishHour, PublishHour + 1} :
          CallRegisterVideo(v, c, p)
    \/ Tick

SpecDiscovery == InitDiscovery /\ [][NextDiscovery]_vars

(***************************************************************************)
(* The life of video_monitoring rows: DiscoveryEngine called directly      *)
(* around the end of the monitoring window.                                *)
(***************************************************************************)
LifecycleStartHour == PublishHour + monitoring_window_hours
PublishHours == {PublishHour - 1, PublishHour, PublishHour + 1}
EngineChannels == {"UC1", "UC2"}
ManualReasons == {"video_deleted", "manual_stop"}

CallExpireMonitoring ==
    /\ Len(calls) < MaxCalls
    /\ LET r == expire_monitoring(video_monitoring, now)
       IN  /\ video_monitoring' = r.table
           /\ calls' = Append(calls, [op |-> "expire_monitoring", video_id |-> "",
                                      channel_id |-> "", published_at |-> 0,
                                      reason |-> "", at |-> now,
                                      result |-> r.affected])
    /\ UNCHANGED <<queue, inv, delivered, faults, settingVars, taskVars>>

CallDeactivateVideo(video_id, reason) ==
    /\ Len(calls) < MaxCalls
    /\ LET r == deactivate_video(video_monitoring, video_id, reason)
       IN  /\ video_monitoring' = r.table
           /\ calls' = Append(calls, [op |-> "deactivate_video", video_id |-> video_id,
                                      channel_id |-> "", published_at |-> 0,
                                      reason |-> reason, at |-> now,
                                      result |-> r.affected])
    /\ UNCHANGED <<queue, inv, delivered, faults, settingVars, taskVars>>

LifecycleTick == TickFrom(LifecycleStartHour)

InitLifecycle ==
    /\ InitBase
    /\ now = LifecycleStartHour
    /\ feed.shape = "empty"
    /\ cloud_run_service_url = ""

NextLifecycle ==
    \/ \E v \in Videos, c \in EngineChannels, p \in PublishHours :
          CallRegisterVideo(v, c, p)
    \/ CallExpireMonitoring
    \/ \E v \in Videos, reason \in ManualReasons : CallDeactivateVideo(v, reason)
    \/ LifecycleTick

SpecLifecycle == InitLifecycle /\ [][NextLifecycle]_vars

(***************************************************************************)
(* Delayed-task handlers and the daily channel refresh, up to two          *)
(* invocations in flight, with a blob store and a warehouse that may fail. *)
(***************************************************************************)
TaskStartHour == HoursPerDay - 1
TaskVideos == {"v1"}
TaskIntervals == {snapshot_intervals_hours[k] : k \in 1..MaxIntervals}

RespondHandler(h, status) == [h EXCEPT !.pc = "done", !.status = status]
\* the handler moves on to the call after step, or answers 200 after the last
Proceed(h, step) ==
    IF StepAfter(step) = "respond"
    THEN RespondHandler(h, HTTP_OK)
    ELSE [h EXCEPT !.pc = StepAfter(step)]

\* the first collaborator a handler waits for: the warehouse, for the ids
\* of a pipeline, or the API
FirstStep(kind) == IF kind \in {"channels", "videos"} THEN "ids" ELSE "fetch"

\* a request reaches a handler: the body is read and the clock is taken.  An
\* invocation already in flight waits for its collaborator meanwhile.
Begin(kind, video_id, channel_id, interval, response) ==
    /\ handler.pc \in {"idle", "done"} \/ parked.pc = "idle"
    /\ delivered < MaxTaskDeliveries
    /\ delivered' = delivered + 1
    /\ parked' = IF handler.pc \in {"idle", "done"} THEN parked ELSE handler
    /\ handler' = [NoHandler EXCEPT !.pc = FirstStep(kind), !.kind = kind,
                                    !.video_id = video_id, !.channel_id = channel_id,
                                    !.interval = interval,
                                    !.published_at = parse_iso(isoformat(PublishHour)),
                                    !.at = now, !.response = response,
                                    !.seq = delivered + 1]
    /\ UNCHANGED <<video_monitoring, queue, inv, faults, settingVars, engineVars,
                   warehouseVars, gcs, merge_log>>

\* POST /tasks/snapshot/{video_id}?interval=..
handle_snapshot(video_id, channel_id, interval, response) ==
    Begin("snapshot", video_id, channel_id, interval, response)
\* POST /tasks/comments/{video_id}
handle_comments(video_id, channel_id, response) ==
    Begin("comments", video_id, channel_id, 0, response)
\* POST /tasks/transcript/{video_id}
handle_transcript(video_id, channel_id, response) ==
    Begin("transcript", video_id, channel_id, 0, response)
\* POST /pipelines/daily-channel-refresh: the response of the API for the
\* tracked channel ids, were it called
daily_channel_refresh(response) ==
    /\ LET channel_ids == get_tracked_channel_ids(tracked_channels)
       IN  IF channel_ids = <<>>
           THEN response = <<>>
           ELSE \A k \in DOMAIN response :
                    \E j \in DOMAIN channel_ids : response[k].id = channel_ids[j]
    /\ Begin("channels", "", "", 0, response)
\* POST /pipelines/daily-video-refresh
daily_video_refresh(response) ==
    /\ response \in VideoResponses(get_active_video_ids(video_monitoring))
    /\ Begin("videos", "", "", 0, response)

\* the pipelines return before the API call when the warehouse has no
\* tracked channel, no active video
NoIds(h) ==
    CASE h.kind = "channels" -> get_tracked_channel_ids(tracked_channels) = <<>>
      [] h.kind = "videos" -> get_active_video_ids(video_monitoring) = <<>>
      [] OTHER -> FALSE

\* a handler that also gives up when the video's monitoring row is inactive
NothingToDoOrInactive(h) ==
    \/ h.kind = "snapshot" /\ h.response = <<>>
    \/ h.kind = "transcript" /\ h.response = None
    \/ \E r \in video_monitoring : r.video_id = h.video_id /\ ~r.is_active

\* no stats returned, no transcript available: nothing to do
NothingToDo(h) ==
    CASE h.kind = "snapshot" -> h.response = <<>>
      [] h.kind = "transcript" -> h.response = None
      [] OTHER -> FALSE

\* engine.get_tracked_channel_ids() / engine.get_active_video_ids() returns:
\* without an id the pipeline answers 200 before the API call
QueryIds ==
    /\ handler.pc = "ids"
    /\ handler' = IF NoIds(handler)
                  THEN RespondHandler(handler, HTTP_OK)
                  ELSE [handler EXCEPT !.pc = "fetch"]
    /\ UNCHANGED <<parked, video_monitoring, queue, inv, delivered, faults, settingVars,
                   engineVars, warehouseVars, gcs, merge_log>>

\* the API call returns
Fetch ==
    /\ handler.pc = "fetch"
    /\ handler' = IF NothingToDo(handler)
                  THEN RespondHandler(handler, HTTP_OK)
                  ELSE Proceed(handler, "fetch")
    /\ UNCHANGED <<parked, video_monitoring, queue, inv, delivered, faults, settingVars,
                   engineVars, warehouseVars, gcs, merge_log>>

\* the API call raises (network, quota, rate limit) and the handler does not
\* catch it
FetchFails ==
    /\ handler.pc = "fetch"
    /\ handler.kind # "transcript"
    /\ faults < MaxFaults
    /\ faults' = faults + 1
    /\ handler' = RespondHandler([handler EXCEPT !.raised = "api"], HTTP_ERROR)
    /\ UNCHANGED <<parked, video_monitoring, queue, inv, delivered, settingVars, engineVars,
                   warehouseVars, gcs, merge_log>>

\* the SELECT of the tracked channel ids, of the active video ids raises and
\* the pipeline does not catch it
QueryIdsFails ==
    /\ handler.pc = "ids"
    /\ faults < MaxFaults
    /\ faults' = faults + 1
    /\ handler' = RespondHandler([handler EXCEPT !.raised = "warehouse"], HTTP_ERROR)
    /\ UNCHANGED <<parked, video_monitoring, queue, inv, delivered, settingVars,
                   engineVars, warehouseVars, gcs, merge_log>>

\* the transcript API raises: fetch_transcript catches every Exception and
\* returns None, which handle_transcript takes for "no transcript available"
FetchTranscriptFails ==
    /\ handler.pc = "fetch"
    /\ handler.kind = "transcript"
    /\ faults < MaxFaults
    /\ faults' = faults + 1
    /\ handler' = LET h == [handler EXCEPT !.raised = "api", !.response = None]
                  IN  IF NothingToDo(h) THEN RespondHandler(h, HTTP_OK)
                      ELSE Proceed(h, "fetch")
    /\ UNCHANGED <<parked, video_monitoring, queue, inv, delivered, settingVars, engineVars,
                   warehouseVars, gcs, merge_log>>

\* the blobs a handler writes, in order
UploadItems(h) ==
    CASE h.kind = "snapshot" ->
            <<[path |-> video_snapshot_path(h.video_id, h.at), data |-> h.response[1]]>>
      [] h.kind = "comments" ->
            <<[path |-> video_comments_path(h.video_id, h.at), data |-> h.response]>>
      [] h.kind = "transcript" ->
            <<[path |-> video_transcript_path(h.video_id), data |-> Val(h.response)]>>
      [] h.kind = "videos" ->
            [k \in 1..Len(h.response) |->
                [path |-> video_metadata_path(h.response[k].id, h.at),
                 data |-> h.response[k]]]
      [] OTHER ->
            [k \in 1..Len(h.response) |->
                [path |-> channel_metadata_path(h.response[k].id, h.at),
                 data |-> h.response[k]]]

\* blob.upload_from_string: the object at the path is written or replaced
gcs_upload(store, path, data) ==
    [p \in (DOMAIN store) \cup {path} |-> IF p = path THEN data ELSE store[p]]

\* gcs.upload_json / gcs.upload_text of the next blob
Upload ==
    /\ handler.pc = "upload"
    /\ LET items == UploadItems(handler)
           k == Len(handler.uploaded) + 1
       IN  IF k <= Len(items)
           THEN /\ gcs' = gcs_upload(gcs, items[k].path, items[k].data)
                /\ handler' =
                     LET h == [handler EXCEPT !.uploaded = Append(@, items[k].path)]
                     IN  IF k = Len(items) THEN Proceed(h, "upload") ELSE h
           ELSE /\ gcs' = gcs
                /\ handler' = Proceed(handler, "upload")
    /\ UNCHANGED <<parked, video_monitoring, queue, inv, delivered, faults, settingVars,
                   engineVars, warehouseVars, merge_log>>

\* the blob store raises
UploadFails ==
    /\ handler.pc = "upload"
    /\ Len(handler.uploaded) < Len(UploadItems(handler))
    /\ faults < MaxFaults
    /\ faults' = faults + 1
    /\ handler' = RespondHandler([handler EXCEPT !.blob_failed = TRUE,
                                                 !.raised = "blob"], HTTP_ERROR)
    /\ UNCHANGED <<parked, video_monitoring, queue, inv, delivered, settingVars, engineVars,
                   warehouseVars, gcs, merge_log>>

\* what a transform left in the warehouse, for comparison with a redelivery
Record(h, rows) ==
    LET e == [task |-> <<h.kind, h.video_id, h.interval>>, response |-> h.response,
              rows |-> rows, seq |-> h.seq]
    IN  IF Len(merge_log) < 2 THEN Append(merge_log, e) ELSE <<merge_log[2], e>>

SnapshotCounters(r) ==
    [view_count |-> r.view_count, like_count |-> r.like_count,
     comment_count |-> r.comment_count, views_delta |-> r.views_delta,
     likes_delta |-> r.likes_delta, comments_delta |-> r.comments_delta]
CommentCounters(r) ==
    [comment_id |-> r.comment_id, like_count |-> r.like_count,
     reply_count |-> r.reply_count]

\* SnapshotTransformer.transform, first statement: _get_previous_snapshot
SelectPreviousSnapshot ==
    /\ handler.pc = "transform" /\ handler.kind = "snapshot" /\ handler.stmt = 0
    /\ \E prev \in PreviousSnapshots(fact_video_snapshot, handler.video_id) :
          handler' = [handler EXCEPT !.prevs = <<prev>>, !.stmt = 1]
    /\ UNCHANGED <<parked, video_monitoring, queue, inv, delivered, faults, settingVars,
                   engineVars, warehouseVars, gcs, merge_log>>

\* SnapshotTransformer.transform, second statement: _merge_snapshot of the
\* row built with the previous snapshot that the SELECT returned
MergeSnapshot ==
    /\ handler.pc = "transform" /\ handler.kind = "snapshot" /\ handler.stmt = 1
    /\ LET h == handler
           row == SnapshotRow(h.response[1], h.video_id, h.channel_id, h.interval,
                              h.published_at, h.at, h.prevs[1])
           m == merge_snapshot(fact_video_snapshot, row)
       IN  /\ fact_video_snapshot' = m.table
           /\ merge_log' = Record(h, {SnapshotCounters(r) :
                               r \in {x \in m.table :
                                        KeyOf(x, SnapshotKey) = KeyOf(row, SnapshotKey)}})
    /\ handler' = Proceed([handler EXCEPT !.merges = @ + 1, !.stmt = 2], "transform")
    /\ UNCHANGED <<parked, video_monitoring, queue, inv, delivered, faults, settingVars,
                   engineVars, fact_comment, dim_video_transcript,
                   fact_channel_snapshot, dim_channel, dim_video, gcs>>

\* _merge_snapshot where the warehouse runs the MERGEs of two overlapping
\* invocations against the same state of the table, as discovery.py 105-107
\* tells of the MERGE of video_monitoring: first the ON clause is evaluated
MatchSnapshot ==
    /\ handler.pc = "transform" /\ handler.kind = "snapshot" /\ handler.stmt = 1
    /\ handler' =
          [handler EXCEPT
              !.stmt = 2,
              !.matched =
                  \E t \in fact_video_snapshot :
                      /\ t.video_id = handler.video_id
                      /\ t.snapshot_type = interval_to_snapshot_type(handler.interval)]
    /\ UNCHANGED <<parked, video_monitoring, queue, inv, delivered, faults, settingVars,
                   engineVars, warehouseVars, gcs, merge_log>>

\* then the branch that the ON clause chose is applied: UPDATE SET of the
\* matched row, or INSERT
ApplySnapshot ==
    /\ handler.pc = "transform" /\ handler.kind = "snapshot" /\ handler.stmt = 2
    /\ LET h == handler
           row == SnapshotRow(h.response[1], h.video_id, h.channel_id, h.interval,
                              h.published_at, h.at, h.prevs[1])
           target == {t \in fact_video_snapshot :
                         KeyOf(t, SnapshotKey) = KeyOf(row, SnapshotKey)}
       IN  fact_video_snapshot' =
              IF h.matched
              THEN (fact_video_snapshot \ target)
                       \cup {UpdateRow(t, row, SnapshotUpdate) : t \in target}
              ELSE fact_video_snapshot
                       \cup {[row EXCEPT !.rid = Cardinality(fact_video_snapshot) + 1]}
    /\ handler' = Proceed([handler EXCEPT !.merges = @ + 1, !.stmt = 3], "transform")
    /\ UNCHANGED <<parked, video_monitoring, queue, inv, delivered, faults, settingVars,
                   engineVars, fact_comment, dim_video_transcript,
                   fact_channel_snapshot, dim_channel, dim_video, gcs, merge_log>>

\* CommentTransformer.transform
TransformComments ==
    /\ handler.pc = "transform" /\ handler.kind = "comments"
    /\ LET h == handler
           m == comment_transform(fact_comment, h.response, h.video_id, h.channel_id,
                                  h.at)
           ids == {h.response[k].id : k \in DOMAIN h.response}
                      \cup UNION {{h.response[k].replies[j].id :
                                      j \in DOMAIN h.response[k].replies} :
                                  k \in DOMAIN h.response}
       IN  /\ fact_comment' = m.table
           /\ merge_log' = IF m.merges = 0 THEN merge_log
                           ELSE Record(h, {CommentCounters(r) :
                                    r \in {x \in m.table : x.comment_id \in ids}})
           /\ handler' = Proceed([h EXCEPT !.merges = @ + m.merges], "transform")
    /\ UNCHANGED <<parked, video_monitoring, queue, inv, delivered, faults, settingVars,
                   engineVars, fact_video_snapshot, dim_video_transcript,
                   fact_channel_snapshot, dim_channel, dim_video, gcs>>

\* TranscriptTransformer.transform
TransformTranscript ==
    /\ handler.pc = "transform" /\ handler.kind = "transcript"
    /\ LET h == handler
           row == TranscriptRow(Val(h.response), h.video_id,
                                gcs_uri(video_transcript_path(h.video_id)), h.at)
           m == merge_transcript(dim_video_transcript, row)
       IN  /\ dim_video_transcript' = m.table
           /\ merge_log' = Record(h, {[word_count |-> r.word_count] :
                                r \in {x \in m.table : x.video_id = h.video_id}})
    /\ handler' = Proceed([handler EXCEPT !.merges = @ + 1], "transform")
    /\ UNCHANGED <<parked, video_monitoring, queue, inv, delivered, faults, settingVars,
                   engineVars, fact_video_snapshot, fact_comment,
                   fact_channel_snapshot, dim_channel, dim_video, gcs>>

\* ChannelTransformer.transform, first statement: the MERGE of
\* _merge_dim_channels, whose updated_at is the warehouse's CURRENT_TIMESTAMP();
\* when it has returned _build_channel_snapshots takes the clock (channels.py
\* 110) before it sends its first SELECT.  Nothing is sent for an empty
\* response, and nothing follows when no item has statistics
MergeDimChannels ==
    /\ handler.pc = "transform" /\ handler.kind = "channels" /\ handler.stmt = 0
    /\ LET h == handler
           dim_rows == [k \in 1..Len(h.response) |-> DimChannelRow(h.response[k], now)]
           g == [h EXCEPT !.merges = @ + 1, !.stmt = 1, !.ts = now]
       IN  IF h.response = <<>>
           THEN /\ dim_channel' = dim_channel
                /\ handler' = Proceed(h, "transform")
           ELSE /\ dim_channel' = merge_dim_channels(dim_channel, dim_rows).table
                /\ handler' = IF WithStatistics(h.response) = <<>>
                              THEN Proceed(g, "transform") ELSE g
    /\ UNCHANGED <<parked, video_monitoring, queue, inv, delivered, faults, settingVars,
                   engineVars, fact_video_snapshot, fact_comment,
                   dim_video_transcript, fact_channel_snapshot, dim_video, gcs,
                   merge_log>>

\* _build_channel_snapshots: one _get_previous_channel_snapshot SELECT per
\* item with statistics returns
SelectPreviousChannelSnapshot ==
    /\ handler.pc = "transform" /\ handler.kind = "channels" /\ handler.stmt >= 1
    /\ Len(handler.prevs) < Len(WithStatistics(handler.response))
    /\ LET h == handler
           item == WithStatistics(h.response)[Len(h.prevs) + 1]
           prev == PreviousChannelSnapshot(fact_channel_snapshot, item.id)
       IN  handler' = [h EXCEPT !.prevs = Append(@, prev), !.stmt = @ + 1]
    /\ UNCHANGED <<parked, video_monitoring, queue, inv, delivered, faults, settingVars,
                   engineVars, warehouseVars, gcs, merge_log>>

\* last statement: _merge_channel_snapshots of the rows built with the clock
\* and the previous snapshots that _build_channel_snapshots read
MergeChannelSnapshots ==
    /\ handler.pc = "transform" /\ handler.kind = "channels" /\ handler.stmt >= 1
    /\ Len(handler.prevs) = Len(WithStatistics(handler.response))
    /\ LET h == handler
           snap_rows == build_channel_snapshots(h.response, h.ts, h.prevs)
       IN  /\ fact_channel_snapshot' =
                  merge_channel_snapshots(fact_channel_snapshot, snap_rows).table
           /\ handler' = Proceed([h EXCEPT !.merges = @ + 1, !.stmt = @ + 1],
                                 "transform")
    /\ UNCHANGED <<parked, video_monitoring, queue, inv, delivered, faults, settingVars,
                   engineVars, fact_video_snapshot, fact_comment,
                   dim_video_transcript, dim_channel, dim_video, gcs, merge_log>>

\* VideoTransformer.transform, which takes the clock again
TransformVideos ==
    /\ handler.pc = "transform" /\ handler.kind = "videos"
    /\ LET h == handler
           m == video_transform(dim_video, h.response, now)
       IN  /\ dim_video' = m.table
           /\ handler' = Proceed([h EXCEPT !.merges = @ + m.merges], "transform")
    /\ UNCHANGED <<parked, video_monitoring, queue, inv, delivered, faults, settingVars,
                   engineVars, fact_video_snapshot, fact_comment, dim_video_transcript,
                   fact_channel_snapshot, dim_channel, gcs, merge_log>>

\* the transform of the handler has a statement to send to the warehouse
SendsStatement(h) ==
    CASE h.kind = "comments" ->
            comment_transform({}, h.response, h.video_id, h.channel_id, h.at).merges > 0
      [] h.kind \in {"channels", "videos"} -> h.response # <<>>
      [] OTHER -> TRUE

\* the next warehouse query or MERGE of the transform raises: what the
\* earlier statements of the transform wrote stays written
TransformFails ==
    /\ handler.pc = "transform"
    /\ SendsStatement(handler)
    /\ faults < MaxFaults
    /\ faults' = faults + 1
    /\ handler' = RespondHandler([handler EXCEPT !.raised = "warehouse"], HTTP_ERROR)
    /\ UNCHANGED <<parked, video_monitoring, queue, inv, delivered, settingVars,
                   engineVars, warehouseVars, gcs, merge_log>>

\* the invocation that waited on its collaborator goes on and the other one
\* waits; an invocation that has answered is gone
Interleave ==
    /\ parked.pc # "idle"
    /\ handler' = parked
    /\ parked' = IF handler.pc \in {"idle", "done"} THEN NoHandler ELSE handler
    /\ UNCHANGED <<video_monitoring, queue, inv, delivered, faults, settingVars,
                   engineVars, warehouseVars, gcs, merge_log>>

\* time passes, also while a handler runs
TaskTick == TickFrom(TaskStartHour)

InitTasks ==
    /\ InitBase
    /\ now = TaskStartHour
    /\ feed.shape = "empty"
    /\ cloud_run_service_url = ""

NextTasks ==
    \/ \E v \in TaskVideos, c \in Channels, h \in TaskIntervals, r \in StatsResponses :
          handle_snapshot(v, c, h, r)
    \/ \E v \in TaskVideos, c \in Channels, r \in CommentResponses :
          handle_comments(v, c, r)
    \/ \E v \in TaskVideos, c \in Channels, r \in TranscriptResponses :
          handle_transcript(v, c, r)
    \/ \E r \in ChannelResponses : daily_channel_refresh(r)
    \/ Fetch
    \/ QueryIds
    \/ QueryIdsFails
    \/ FetchFails
    \/ FetchTranscriptFails
    \/ Upload
    \/ UploadFails
    \/ SelectPreviousSnapshot
    \/ MergeSnapshot
    \/ TransformComments
    \/ TransformTranscript
    \/ MergeDimChannels
    \/ SelectPreviousChannelSnapshot
    \/ MergeChannelSnapshots
    \/ TransformFails
    \/ Interleave
    \/ TaskTick

SpecTasks == InitTasks /\ [][NextTasks]_vars

(***************************************************************************)
(* Deliveries and redeliveries of snapshot tasks that overlap, against a   *)
(* warehouse that runs concurrent MERGEs against the same table state.     *)
(***************************************************************************)
NextOverlap ==
    \/ \E v \in TaskVideos, c \in Channels, h \in TaskIntervals, r \in StatsResponses :
          handle_snapshot(v, c, h, r)
    \/ Fetch
    \/ Upload
    \/ SelectPreviousSnapshot
    \/ MatchSnapshot
    \/ ApplySnapshot
    \/ Interleave

SpecOverlap == InitTasks /\ [][NextOverlap]_vars

(***************************************************************************)
(* The snapshot handler and the two refresh pipelines over warehouses with *)
(* and without tracked channels and active videos.                         *)
(***************************************************************************)
\* tracked_channels as seeded: empty, one active channel, one inactive
TrackedTables ==
    {{}} \cup {{TrackedRow(1, tracked_channel_ids[1], a)} : a \in BOOLEAN}
\* video_monitoring after no call, after register_video calls and after a
\* deactivation
MonitoringTables ==
    LET one == register_video({}, "v1", "UC1", PublishHour, TaskStartHour).table
        two == register_video(one, "v2", "UC1", PublishHour, TaskStartHour).table
    IN  {{}, one, two, deactivate_video(one, "v1", "manual_stop").table,
         deactivate_video(two, "v1", "video_deleted").table}

InitPipelines ==
    /\ InitState
    /\ now = TaskStartHour
    /\ feed.shape = "empty"
    /\ cloud_run_service_url = ""
    /\ tracked_channels \in TrackedTables
    /\ video_monitoring \in MonitoringTables

NextPipelines ==
    \/ /\ delivered < MaxRefreshes
       /\ \E v \in TaskVideos, c \in Channels, h \in TaskIntervals,
             r \in StatsResponses :
               handle_snapshot(v, c, h, r)
    \/ /\ delivered < MaxRefreshes
       /\ \E r \in ChannelResponses : daily_channel_refresh(r)
    \/ /\ delivered < MaxRefreshes
       /\ \E r \in VideoResponses(get_active_video_ids(video_monitoring)) :
               daily_video_refresh(r)
    \/ Fetch
    \/ QueryIds
    \/ QueryIdsFails
    \/ FetchFails
    \/ Upload
    \/ UploadFails
    \/ SelectPreviousSnapshot
    \/ MergeSnapshot
    \/ MergeDimChannels
    \/ SelectPreviousChannelSnapshot
    \/ MergeChannelSnapshots
    \/ TransformVideos
    \/ TransformFails
    \/ Interleave
    \/ TaskTick

SpecPipelines == InitPipelines /\ [][NextPipelines]_vars

(***************************************************************************)
(* engines/features/registry.py, engines/features/runner.py and the        *)
(* compute-features pipeline: one MERGE per feature, one after the other.  *)
(***************************************************************************)
\* an order in which video_performance runs before the table it joins
FeatureOrderPerformanceFirst ==
    <<"video_performance", "channel", "video_content", "temporal", "comment_aggregates">>

FEATURE_EXECUTION_ORDER ==
    <<"channel", "video_performance", "video_content", "temporal", "comment_aggregates">>

\* what the warehouse saw of FeatureRunner.run: the MERGE job of a feature
\* was issued, its result arrived, or it raised
RunEvent(op, feature, seq) == [op |-> op, feature |-> feature, seq |-> seq]

\* POST /pipelines/compute-features
compute_features ==
    /\ handler.pc \in {"idle", "done"}
    /\ delivered < MaxTaskDeliveries
    /\ delivered' = delivered + 1
    /\ handler' = [NoHandler EXCEPT !.pc = "run", !.kind = "features", !.at = now,
                                    !.seq = delivered + 1]
    /\ UNCHANGED <<parked, video_monitoring, queue, inv, faults, settingVars, engineVars,
                   warehouseVars, gcs, merge_log>>

\* runner.run(name): self._client.query(sql) of the next feature in order, or
\* the response after the last one
RunIssue ==
    /\ handler.pc = "run"
    /\ IF handler.merges < Len(FEATURE_EXECUTION_ORDER)
       THEN /\ calls' = Append(calls, RunEvent("issued",
                                   FEATURE_EXECUTION_ORDER[handler.merges + 1],
                                   handler.seq))
            /\ handler' = [handler EXCEPT !.pc = "merge"]
       ELSE /\ calls' = calls
            /\ handler' = RespondHandler(handler, HTTP_OK)
    /\ UNCHANGED <<parked, video_monitoring, queue, inv, delivered, faults, settingVars,
                   warehouseVars, gcs, merge_log>>

\* job.result() returns: the MERGE of the feature is complete
RunComplete ==
    /\ handler.pc = "merge"
    /\ calls' = Append(calls, RunEvent("completed",
                           FEATURE_EXECUTION_ORDER[handler.merges + 1], handler.seq))
    /\ handler' = [handler EXCEPT !.pc = "run", !.merges = @ + 1]
    /\ UNCHANGED <<parked, video_monitoring, queue, inv, delivered, faults, settingVars,
                   warehouseVars, gcs, merge_log>>

\* job.result() raises: compute_features has no try/except
RunFails ==
    /\ handler.pc = "merge"
    /\ faults < MaxFaults
    /\ faults' = faults + 1
    /\ calls' = Append(calls, RunEvent("raised",
                           FEATURE_EXECUTION_ORDER[handler.merges + 1], handler.seq))
    /\ handler' = RespondHandler([handler EXCEPT !.raised = "warehouse"], HTTP_ERROR)
    /\ UNCHANGED <<parked, video_monitoring, queue, inv, delivered, settingVars, warehouseVars,
                   gcs, merge_log>>

InitFeatures ==
    /\ InitBase
    /\ now = TaskStartHour
    /\ feed.shape = "empty"
    /\ cloud_run_service_url = ""

NextFeatures ==
    \/ compute_features
    \/ RunIssue
    \/ RunComplete
    \/ RunFails
    \/ TaskTick

SpecFeatures == InitFeatures /\ [][NextFeatures]_vars

(***************************************************************************)
(* get_active_video_ids over video_monitoring tables with several rows per *)
(* video, as concurrent registrations leave them, and inactive rows.       *)
(***************************************************************************)
\* a row of video_monitoring as register_video inserts it and as a
\* deactivation leaves it
MonitoringRow(rid, video_id, is_active) ==
    [RegisterRow({}, video_id, "UC1", PublishHour, TaskStartHour)
        EXCEPT !.rid = rid, !.is_active = is_active,
               !.inactive_reason = IF is_active THEN None ELSE Some("manual_stop")]
\* up to MaxCalls rows, each of one of the videos, active or not
QueryTables ==
    {{MonitoringRow(k, f[k][1], f[k][2]) : k \in DOMAIN f} :
        f \in UNION {[K -> Videos \X BOOLEAN] : K \in SUBSET (1..MaxCalls)}}

CallGetActiveVideoIds ==
    /\ Len(calls) < MaxCalls
    /\ calls' = Append(calls, [op |-> "get_active_video_ids", video_id |-> "",
                               channel_id |-> "", published_at |-> 0, reason |-> "",
                               at |-> now,
                               result |-> get_active_video_ids(video_monitoring)])
    /\ UNCHANGED <<video_monitoring, queue, inv, delivered, faults, settingVars,
                   taskVars>>

InitQueries ==
    /\ InitState
    /\ now = TaskStartHour
    /\ feed.shape = "empty"
    /\ cloud_run_service_url = ""
    /\ tracked_channels = {}
    /\ video_monitoring \in QueryTables

NextQueries ==
    \/ CallGetActiveVideoIds
    \/ \E v \in Videos : CallDeactivateVideo(v, "video_deleted")

SpecQueries == InitQueries /\ [][NextQueries]_vars

(***************************************************************************)
(* Deliveries of one notification while its channel is tracked, no longer  *)
(* tracked, or was never tracked.                                          *)
(***************************************************************************)
InitTracked ==
    /\ InitState
    /\ now = StartHour
    /\ video_monitoring = {}
    /\ tracked_channels \in TrackedTables

SpecTracked == InitTracked /\ [][NextSequential]_vars

(***************************************************************************)
(* SQL literal helpers of the transformers.  A text is the sequence of its *)
(* characters.                                                             *)
(***************************************************************************)
\* an ordinary character, and the four the statements must not hold raw
Characters == {"n", "\\", "'", "\n", "\r"}
Texts == UNION {[1..k -> Characters] : k \in 0..MaxLen}

\* str.replace(old, new) for a one-character old
RECURSIVE replace(_, _, _)
replace(value, old, new) ==
    IF value = <<>>
    THEN <<>>
    ELSE (IF Head(value) = old THEN new ELSE <<Head(value)>>)
             \o replace(Tail(value), old, new)

\* comments.py _esc
comments_esc(value) ==
    replace(replace(replace(replace(value, "\\", <<"\\", "\\">>),
                            "'", <<"\\", "'">>),
                    "\n", <<"\\", "n">>),
            "\r", <<"\\", "r">>)
\* videos.py _esc
videos_esc(value) ==
    replace(replace(value, "\\", <<"\\", "\\">>), "'", <<"\\", "'">>)

NULL == <<"N", "U", "L", "L">>
Quoted(escaped) == <<"'">> \o escaped \o <<"'">>
\* comments.py _sql_str
comments_sql_str(value) ==
    IF value = None THEN NULL ELSE Quoted(comments_esc(Val(value)))
\* videos.py _sql_str
videos_sql_str(value) ==
    IF value = None THEN NULL ELSE Quoted(videos_esc(Val(value)))
\* channels.py _sql_str
channels_sql_str(value) ==
    IF value = None
    THEN NULL
    ELSE Quoted(replace(replace(Val(value), "\\", <<"\\", "\\">>),
                        "'", <<"\\", "'">>))

\* the literal a MERGE statement holds for the value of a column
Statement(table, column, value, literal) ==
    [op |-> "run_merge", table |-> table, column |-> column, value |-> value,
     literal |-> literal]

\* the warehouse rejects a statement in which a string literal holds a raw
\* line feed or carriage return (unclosed string literal): job.result() raises
Unclosed(literal) == \E j \in DOMAIN literal : literal[j] \in {"\n", "\r"}

\* run_merge of the statement with these literals and this MERGE result: the
\* statement is sent; the warehouse applies it, or rejects it and the
\* transformer's caller gets the exception
RunMerge(h, statements) ==
    /\ calls' = calls \o statements
    /\ handler' = IF \E k \in DOMAIN statements : Unclosed(statements[k].literal)
                  THEN RespondHandler([h EXCEPT !.raised = "warehouse"], HTTP_ERROR)
                  ELSE Proceed([h EXCEPT !.merges = @ + 1], "transform")
Applied(statements, table, merged) ==
    IF \E k \in DOMAIN statements : Unclosed(statements[k].literal)
    THEN table ELSE merged

\* ChannelTransformer._merge_dim_channels: the description and the keywords
\* of the channel whose payload is the response
MergeChannelText ==
    /\ handler.pc = "transform" /\ handler.kind = "channels"
    /\ LET value == handler.response
           row == [rid |-> 0, channel_id |-> tracked_channel_ids[1],
                   channel_description |-> value, channel_keywords |-> value,
                   updated_at |-> now]
           statements ==
               <<Statement("dim_channel", "channel_description", value,
                           channels_sql_str(value)),
                 Statement("dim_channel", "channel_keywords", value,
                           channels_sql_str(value))>>
       IN  /\ RunMerge(handler, statements)
           /\ dim_channel' =
                  Applied(statements, dim_channel,
                          MergeUpsert(dim_channel, <<row>>, DimChannelKey,
                                      {"channel_description", "channel_keywords",
                                       "updated_at"}).table)
    /\ UNCHANGED <<parked, video_monitoring, queue, inv, delivered, faults, settingVars,
                   fact_video_snapshot, fact_comment, dim_video_transcript,
                   fact_channel_snapshot, dim_video, gcs, merge_log>>

\* VideoTransformer._merge_dim_videos: title and description go through
\* _sql_str, a tag through _esc between quotes
MergeVideoText ==
    /\ handler.pc = "transform" /\ handler.kind = "videos"
    /\ LET value == handler.response
           tags == IF value = None THEN <<>> ELSE <<Val(value)>>
           row == [rid |-> 0, video_id |-> "v1", title |-> value,
                   description |-> value, tags |-> tags,
                   first_seen_at |-> now, updated_at |-> now]
           statements ==
               <<Statement("dim_video", "title", value, videos_sql_str(value)),
                 Statement("dim_video", "description", value, videos_sql_str(value))>>
               \o [k \in DOMAIN tags |->
                      Statement("dim_video", "tags", Some(tags[k]),
                                Quoted(videos_esc(tags[k])))]
       IN  /\ RunMerge(handler, statements)
           /\ dim_video' =
                  Applied(statements, dim_video,
                          MergeUpsert(dim_video, <<row>>, DimVideoKey,
                                      {"title", "description", "tags",
                                       "updated_at"}).table)
    /\ UNCHANGED <<parked, video_monitoring, queue, inv, delivered, faults, settingVars,
                   fact_video_snapshot, fact_comment, dim_video_transcript,
                   fact_channel_snapshot, dim_channel, gcs, merge_log>>

\* CommentTransformer._merge_comments: the text of a comment
MergeCommentText ==
    /\ handler.pc = "transform" /\ handler.kind = "comments"
    /\ LET value == handler.response
           row == [rid |-> 0, comment_id |-> "c1", comment_text |-> value,
                   pulled_at |-> handler.at]
           statements ==
               <<Statement("fact_comment", "comment_text", value,
                           comments_sql_str(value))>>
       IN  /\ RunMerge(handler, statements)
           /\ fact_comment' =
                  Applied(statements, fact_comment,
                          MergeUpsert(fact_comment, <<row>>, CommentKey,
                                      {"comment_text", "pulled_at"}).table)
    /\ UNCHANGED <<parked, video_monitoring, queue, inv, delivered, faults, settingVars,
                   fact_video_snapshot, dim_video_transcript, fact_channel_snapshot,
                   dim_channel, dim_video, gcs, merge_log>>

\* a transformer is about to build its statement for a payload whose
\* free-text value is the response
InitEscaping ==
    /\ InitBase
    /\ now = TaskStartHour
    /\ feed.shape = "empty"
    /\ cloud_run_service_url = ""

BeginEscaping ==
    /\ handler.pc = "idle"
    /\ \E kind \in {"channels", "videos", "comments"} :
       \E value \in {None} \cup {Some(t) : t \in Texts} :
          handler' = [NoHandler EXCEPT !.pc = "transform", !.kind = kind,
                                       !.at = now, !.response = value]
    /\ UNCHANGED <<parked, video_monitoring, queue, inv, delivered, faults, settingVars,
                   engineVars, warehouseVars, gcs, merge_log>>

NextEscaping ==
    \/ BeginEscaping
    \/ MergeChannelText
    \/ MergeVideoText
    \/ MergeCommentText

SpecEscaping == InitEscaping /\ [][NextEscaping]_vars

(***************************************************************************)
(* utils/timestamps.py: parse_iso8601_duration.  A duration is the         *)
(* sequence of its characters.                                             *)
(***************************************************************************)
Digits == <<"0", "1", "2", "3", "4", "5", "6", "7", "8", "9">>
\* str(n) for n >= 0
RECURSIVE str(_)
str(n) ==
    IF n < 10 THEN <<Digits[n + 1]>> ELSE str(n \div 10) \o <<Digits[(n % 10) + 1]>>
\* int(value): ValueError for the empty string and for a non-digit
RECURSIVE int(_)
int(value) ==
    IF value = <<>> \/ \E k \in DOMAIN value : \A d \in DOMAIN Digits : value[k] # Digits[d]
    THEN ValueError
    ELSE LET last == (CHOOSE d \in DOMAIN Digits : Digits[d] = value[Len(value)]) - 1
         IN  IF Len(value) = 1
             THEN last
             ELSE 10 * int(SubSeq(value, 1, Len(value) - 1)) + last

\* a unit list that takes a minute for an hour and an hour for a minute
DurationUnitsSwapped ==
    <<[unit |-> "H", multiplier |-> 60], [unit |-> "M", multiplier |-> 3600],
      [unit |-> "S", multiplier |-> 1]>>
\* for unit, multiplier in [("H", 3600), ("M", 60), ("S", 1)]
DurationUnits ==
    <<[unit |-> "H", multiplier |-> 3600], [unit |-> "M", multiplier |-> 60],
      [unit |-> "S", multiplier |-> 1]>>

\* the loop from its k-th unit on: ValueError as soon as an int() raises
RECURSIVE duration_loop(_, _, _)
duration_loop(rest, total, k) ==
    IF k > Len(DurationUnits)
    THEN total
    ELSE LET unit == DurationUnits[k].unit
         IN  IF \E j \in DOMAIN rest : rest[j] = unit
             THEN LET at == CHOOSE j \in DOMAIN rest :
                                /\ rest[j] = unit
                                /\ \A i \in 1..(j - 1) : rest[i] # unit
                      value == int(SubSeq(rest, 1, at - 1))
                  IN  IF value = ValueError
                      THEN ValueError
                      ELSE duration_loop(SubSeq(rest, at + 1, Len(rest)),
                                         total + value * DurationUnits[k].multiplier,
                                         k + 1)
             ELSE duration_loop(rest, total, k + 1)

parse_iso8601_duration(duration) ==
    IF Len(duration) < 2 \/ SubSeq(duration, 1, 2) # <<"P", "T">>
    THEN 0
    ELSE duration_loop(SubSeq(duration, 3, Len(duration)), 0, 1)

\* 'PT<h>H<m>M<s>S' with the components that are present
DurationText(h, m, s) ==
    <<"P", "T">> \o (IF h = None THEN <<>> ELSE str(Val(h)) \o <<"H">>)
                 \o (IF m = None THEN <<>> ELSE str(Val(m)) \o <<"M">>)
                 \o (IF s = None THEN <<>> ELSE str(Val(s)) \o <<"S">>)
Components == {None} \cup {Some(n) : n \in 0..MaxComponent}
\* durations that do not start with 'PT'
OtherDurations ==
    {<<>>, <<"P">>, <<"P", "1", "D">>, <<"T", "1", "H">>, <<"1", "H">>,
     <<"P", "1", "D", "T", "2", "H">>, <<"p", "t", "1", "H">>}

ParseEvent(h, m, s, duration) ==
    [op |-> "parse_iso8601_duration", h |-> h, m |-> m, s |-> s,
     duration |-> duration, result |-> parse_iso8601_duration(duration)]

\* a call with a duration in the format of contentDetails.duration
CallParseDuration ==
    /\ calls = <<>>
    /\ \E h \in Components, m \in Components, s \in Components :
          calls' = <<ParseEvent(h, m, s, DurationText(h, m, s))>>
    /\ UNCHANGED <<video_monitoring, queue, inv, delivered, faults, settingVars,
                   taskVars>>

\* a call with any other string
CallParseOther ==
    /\ calls = <<>>
    /\ \E d \in OtherDurations : calls' = <<ParseEvent(None, None, None, d)>>
    /\ UNCHANGED <<video_monitoring, queue, inv, delivered, faults, settingVars,
                   taskVars>>

NextDuration ==
    \/ CallParseDuration
    \/ CallParseOther

SpecDuration == InitEscaping /\ [][NextDuration]_vars

(***************************************************************************)
(* utils/retry.py: a function wrapped with retry(max_retries,              *)
(* retryable_exceptions).  The wrapped function is any function: each of   *)
(* its calls returns or raises one of two exception types.                 *)
(***************************************************************************)
Exceptions == {"ValueError", "TypeError"}
\* retryable_exceptions: (Exception,) by default, or one type
RetryableSets == {Exceptions, {"TypeError"}}

\* an except clause that catches every exception
catches_all(e, retryable_exceptions) == e \in Exceptions
\* except retryable_exceptions as e
catches(e, retryable_exceptions) == e \in retryable_exceptions

FuncEvent(attempt, outcome) == [op |-> "func", attempt |-> attempt, outcome |-> outcome]

\* wrapper(*args, **kwargs) is called: last_exception = None, first attempt
CallWrapped ==
    /\ handler.pc = "idle"
    /\ \E n \in 0..MaxRetries, r \in RetryableSets :
          handler' = [pc |-> "attempt", kind |-> "retry", max_retries |-> n,
                      retryable_exceptions |-> r, attempt |-> 0,
                      last_exception |-> None, result |-> None, raised |-> None]
    /\ UNCHANGED <<parked, video_monitoring, queue, inv, delivered, faults, settingVars,
                   engineVars, warehouseVars, gcs, merge_log>>

\* return func(*args, **kwargs)
FuncReturns ==
    /\ handler.pc = "attempt"
    /\ calls' = Append(calls, FuncEvent(handler.attempt, "ok"))
    /\ handler' = [handler EXCEPT !.pc = "returned", !.result = Some("ok")]
    /\ UNCHANGED <<parked, video_monitoring, queue, inv, delivered, faults, settingVars,
                   warehouseVars, gcs, merge_log>>

\* func raises e: caught when retryable (break at the last attempt, else the
\* delay is computed and slept), propagated otherwise
FuncRaises ==
    /\ handler.pc = "attempt"
    /\ \E e \in Exceptions :
          /\ calls' = Append(calls, FuncEvent(handler.attempt, e))
          /\ handler' =
                IF catches(e, handler.retryable_exceptions)
                THEN IF handler.attempt = handler.max_retries
                     THEN [handler EXCEPT !.pc = "raised", !.last_exception = Some(e),
                                          !.raised = Some(e)]
                     ELSE [handler EXCEPT !.pc = "sleep", !.last_exception = Some(e)]
                ELSE [handler EXCEPT !.pc = "raised", !.raised = Some(e)]
    /\ UNCHANGED <<parked, video_monitoring, queue, inv, delivered, faults, settingVars,
                   warehouseVars, gcs, merge_log>>

\* time.sleep(delay) / await asyncio.sleep(delay) returns: the next attempt
\* of range(max_retries + 1), or raise last_exception after the loop
Sleep ==
    /\ handler.pc = "sleep"
    /\ handler' = IF handler.attempt + 1 \in 0..handler.max_retries
                  THEN [handler EXCEPT !.pc = "attempt", !.attempt = @ + 1]
                  ELSE [handler EXCEPT !.pc = "raised", !.raised = handler.last_exception]
    /\ UNCHANGED <<parked, video_monitoring, queue, inv, delivered, faults, settingVars,
                   engineVars, warehouseVars, gcs, merge_log>>

NextRetry ==
    \/ CallWrapped
    \/ FuncReturns
    \/ FuncRaises
    \/ Sleep

\* a call of the function returns or raises, and a sleep ends
SpecRetry == InitEscaping /\ [][NextRetry]_vars /\ WF_vars(NextRetry)

(***************************************************************************)
(* Delayed tasks that fire for a video whose monitoring row is active,     *)
(* inactive, or is deactivated while its tasks are pending.                *)
(***************************************************************************)
InitPending ==
    /\ InitState
    /\ now = TaskStartHour
    /\ feed.shape = "empty"
    /\ cloud_run_service_url = ""
    /\ tracked_channels = {TrackedRow(1, tracked_channel_ids[1], TRUE)}
    /\ video_monitoring \in MonitoringTables

NextPending ==
    \/ /\ delivered < MaxRefreshes
       /\ \E v \in TaskVideos, c \in Channels, h \in TaskIntervals,
             r \in StatsResponses :
               handle_snapshot(v, c, h, r)
    \/ /\ delivered < MaxRefreshes
       /\ \E v \in TaskVideos, c \in Channels, r \in CommentResponses :
               handle_comments(v, c, r)
    \/ /\ delivered < MaxRefreshes
       /\ \E v \in TaskVideos, c \in Channels, r \in TranscriptResponses :
               handle_transcript(v, c, r)
    \/ Fetch
    \/ FetchFails
    \/ FetchTranscriptFails
    \/ Upload
    \/ UploadFails
    \/ SelectPreviousSnapshot
    \/ MergeSnapshot
    \/ TransformComments
    \/ TransformTranscript
    \/ TransformFails
    \/ Interleave
    \/ \E v \in TaskVideos, reason \in ManualReasons : CallDeactivateVideo(v, reason)

SpecPending == InitPending /\ [][NextPending]_vars

(***************************************************************************)
(* Properties.                                                             *)
(***************************************************************************)
RowsOf(video_id) == {r \in video_monitoring : r.video_id = video_id}
RegisterCalls == {j \in 1..Len(calls) : calls[j].op = "register_video"}
FirstCallFor(j) == \A m \in 1..(j - 1) : calls[m].video_id # calls[j].video_id
SameArguments(j, k) ==
    /\ calls[j].video_id = calls[k].video_id
    /\ calls[j].channel_id = calls[k].channel_id
    /\ calls[j].published_at = calls[k].published_at

\* C1: register_video called twice with the same (video id, channel id,
\* publish time) returns TRUE the first time and FALSE the second, and
\* video_monitoring then holds exactly one row of that video.
C1_RegisterTwice ==
    \A j \in RegisterCalls, k \in RegisterCalls :
        (j < k /\ FirstCallFor(j) /\ SameArguments(j, k)) =>
            /\ calls[j].result = TRUE
            /\ calls[k].result = FALSE
            /\ Cardinality(RowsOf(calls[j].video_id)) = 1

C1_Witness ==
    \E j \in RegisterCalls, k \in RegisterCalls :
        j < k /\ FirstCallFor(j) /\ SameArguments(j, k)

FeedProceeds == webhook_parse(feed, now).next = "proceed"

\* C2: when one notification is delivered several times without overlap and
\* no collaborator fails, only the first delivery calls register_video and
\* enqueue_fanout; every later delivery is detected by is_video_registered
\* and issues no task creation.
C2_OnlyFirstDeliverySchedules ==
    FeedProceeds =>
        \A i \in Slots :
            /\ (inv[i].called_register \/ inv[i].called_fanout) => inv[i].seq = 1
            /\ (inv[i].seq > 1 /\ inv[i].pc # "check") =>
                    /\ inv[i].pc = "done"
                    /\ inv[i].detected
                    /\ inv[i].issued = <<>>

C2_Witness ==
    /\ FeedProceeds
    /\ \E i \in Slots, j \in Slots :
          /\ inv[i].seq = 1 /\ inv[i].called_fanout /\ inv[i].pc = "done"
          /\ inv[i].ok = Len(FanoutPlan)
          /\ inv[j].seq > 1 /\ inv[j].pc = "done" /\ inv[j].detected

PlanIds(video_id) == {task_id(video_id, FanoutPlan[k]) : k \in 1..Len(FanoutPlan)}
Range(f) == {f[k] : k \in DOMAIN f}
QueuedFor(video_id) == {t \in BagToSet(queue) : t.video_id = video_id}
DirectRun(i) == inv[i].entry = "enqueue_fanout" /\ inv[i].pc = "done"
SameRun(i, j) ==
    /\ inv[i].video_id = inv[j].video_id
    /\ inv[i].channel_id = inv[j].channel_id
    /\ inv[i].published_at = inv[j].published_at

\* C3: two runs of enqueue_fanout for the same video issue the same set of
\* task identifiers; with a queue that answers a duplicate name with
\* AlreadyExists both runs count every task ok and none failed, and the queue
\* holds every task of the plan once.
C3_FanoutTwice ==
    \A i \in Slots, j \in Slots :
        ( /\ i # j /\ DirectRun(i) /\ DirectRun(j) /\ SameRun(i, j)
          /\ cloud_run_service_url # ""
          /\ inv[i].create_errors = 0 /\ inv[j].create_errors = 0 ) =>
            /\ Range(inv[i].issued) = Range(inv[j].issued)
            /\ inv[i].ok = Len(FanoutPlan) /\ inv[i].failed = 0
            /\ inv[j].ok = Len(FanoutPlan) /\ inv[j].failed = 0
            /\ \A t \in QueuedFor(inv[i].video_id) : CopiesIn(t, queue) = 1
            /\ Cardinality(QueuedFor(inv[i].video_id)) = Len(FanoutPlan)
            /\ {t.name : t \in QueuedFor(inv[i].video_id)}
                   = {"queue/tasks/" \o id : id \in Range(inv[i].issued)}

C3_Witness ==
    \E i \in Slots, j \in Slots :
        /\ i # j /\ DirectRun(i) /\ DirectRun(j) /\ SameRun(i, j)
        /\ cloud_run_service_url # ""
        /\ inv[i].create_errors = 0 /\ inv[j].create_errors = 0
        /\ inv[j].already_exists = Len(FanoutPlan)

\* C4: however concurrent deliveries of one notification interleave, the
\* queue never holds two tasks of the same (video, kind, interval), and no
\* invocation counts a task as failed or ends in an error because another
\* invocation created the task first.
C4_RaceLeavesOneTaskEach ==
    /\ \A t \in BagToSet(queue) : CopiesIn(t, queue) = 1
    /\ \A t \in BagToSet(queue), u \in BagToSet(queue) :
          (t.video_id = u.video_id /\ t.kind = u.kind /\ t.hours = u.hours) => t = u
    /\ \A i \in Slots :
          /\ inv[i].failed = 0
          /\ inv[i].ok = inv[i].idx
          /\ (inv[i].called_fanout /\ inv[i].pc = "done") => inv[i].status = HTTP_OK

C4_Witness ==
    \E i \in Slots, j \in Slots :
        /\ i # j
        /\ inv[i].pc = "done" /\ inv[j].pc = "done"
        /\ inv[i].video_id = inv[j].video_id
        /\ inv[i].called_fanout /\ inv[j].called_fanout
        /\ inv[i].already_exists > 0 /\ inv[j].already_exists > 0

AllTasksQueued(video_id) ==
    \A id \in PlanIds(video_id) : ("queue/tasks/" \o id) \in QueueNames(queue)

\* C5: if an invocation of the notify handler was abandoned and the same
\* notification is then redelivered and handled to the end, with no
\* collaborator failing, the video is registered and every task of its
\* fan-out plan is in the queue.
C5_AbandonedThenRedelivered ==
    \A d \in Slots :
        ( /\ inv[d].entry = "webhook" /\ inv[d].pc = "done"
          /\ inv[d].after_abandon
          /\ FeedProceeds /\ faults = 0 /\ cloud_run_service_url # "" ) =>
            /\ is_video_registered(video_monitoring, inv[d].video_id)
            /\ AllTasksQueued(inv[d].video_id)

\* C9: the notify handler answers every request with a success status,
\* whatever happened inside.
C9_AlwaysSuccess ==
    \A i \in Slots :
        (inv[i].entry = "webhook" /\ inv[i].pc = "done") => inv[i].status = HTTP_OK

PlanIdSeq(video_id) == [k \in 1..Len(FanoutPlan) |-> task_id(video_id, FanoutPlan[k])]

\* C10: whichever task creations fail with an error other than
\* AlreadyExists, a run of enqueue_fanout attempts every task of the plan
\* exactly once, ok + failed is the size of the plan and failed is the
\* number of those failures.
C10_AllTasksAttempted ==
    \A i \in Slots :
        /\ inv[i].failed = inv[i].create_errors
        /\ (DirectRun(i) /\ cloud_run_service_url # "") =>
              /\ inv[i].issued = PlanIdSeq(inv[i].video_id)
              /\ inv[i].ok + inv[i].failed = Len(FanoutPlan)

\* a run in which the creation of the 2h snapshot task and of the transcript
\* task failed: 18 ok, 2 failed, and the queue holds the other 18 tasks
C10_Witness ==
    \E i \in Slots :
        /\ DirectRun(i) /\ cloud_run_service_url # ""
        /\ inv[i].seq = 1
        /\ inv[i].create_errors = 2 /\ inv[i].failed = 2
        /\ inv[i].ok = Len(FanoutPlan) - 2
        /\ QueueNames(queue) =
               {"queue/tasks/" \o task_id(inv[i].video_id, FanoutPlan[k]) :
                   k \in (1..Len(FanoutPlan)) \ {2, Len(FanoutPlan)}}

UniqueBy(table, key) ==
    \A r \in table, q \in table : KeyOf(r, key) = KeyOf(q, key) => r = q

\* C6: after any sequence of deliveries and redeliveries of delayed tasks and
\* pipeline runs, fact_video_snapshot holds at most one row per (video id,
\* snapshot label), fact_channel_snapshot at most one per (channel id,
\* calendar date), fact_comment at most one per comment id and
\* dim_video_transcript at most one per video id.
C6_OneRowPerNaturalKey ==
    /\ UniqueBy(fact_video_snapshot, {"video_id", "snapshot_type"})
    /\ UniqueBy(fact_channel_snapshot, {"channel_id", "snapshot_date"})
    /\ UniqueBy(fact_comment, {"comment_id"})
    /\ UniqueBy(dim_video_transcript, {"video_id"})

\* two transforms that followed one another, of the same task and with the
\* same API response
Redelivered ==
    /\ Len(merge_log) = 2
    /\ merge_log[1].task = merge_log[2].task
    /\ merge_log[1].response = merge_log[2].response

\* C7: redelivering a snapshot, comment or transcript task for which the API
\* returns the same payload leaves the rows of the task's natural key with
\* the same counters and the same deltas as the first delivery did.
C7_RedeliverySameRow ==
    Redelivered => merge_log[1].rows = merge_log[2].rows

TaskHandler == handler.kind \in {"snapshot", "comments", "transcript"}
\* every blob of the invocation is in the bucket under the path the
\* invocation recorded for it
BlobsWritten(h) ==
    \A k \in DOMAIN UploadItems(h) :
        /\ k <= Len(h.uploaded)
        /\ h.uploaded[k] = UploadItems(h)[k].path
        /\ UploadItems(h)[k].path \in DOMAIN gcs
\* the invocation that steps has written its next blob
WritesBlob ==
    /\ handler'.seq = handler.seq
    /\ Len(handler'.uploaded) = Len(handler.uploaded) + 1

\* C8: in every invocation of the snapshot, comment and transcript handlers
\* a warehouse merge happens only after the blob of the same raw payload was
\* written, and an invocation whose blob write failed performs no merge.
C8_BlobBeforeMerge ==
    /\ [](TaskHandler =>
            /\ (handler.merges > 0 \/ handler.pc = "transform") => BlobsWritten(handler)
            /\ handler.blob_failed => handler.merges = 0)
    /\ [][(TaskHandler /\ WritesBlob) =>
             LET item == UploadItems(handler)[Len(handler'.uploaded)]
             IN  /\ item.path \in DOMAIN gcs'
                 /\ gcs'[item.path] = item.data
                 /\ item.data = IF handler.kind = "snapshot" THEN handler.response[1]
                                ELSE IF handler.kind = "comments" THEN handler.response
                                ELSE Val(handler.response)]_vars
    /\ [][(TaskHandler' /\ handler'.blob_failed) => UNCHANGED warehouseVars]_vars

C8_Witness ==
    /\ TaskHandler
    /\ handler.blob_failed
    /\ handler.status = HTTP_ERROR
    /\ Len(merge_log) > 0
    /\ merge_log[Len(merge_log)].task[1] = handler.kind

\* C11: for a never-seen video and a queue that accepts every creation, a
\* run of enqueue_fanout creates exactly 15 tasks, 12 snapshot, 2 comment and
\* 1 transcript, and counts 15 ok and 0 failed.
C11_FifteenTasks ==
    \A i \in Slots :
        ( /\ DirectRun(i) /\ cloud_run_service_url # ""
          /\ inv[i].create_errors = 0 /\ inv[i].already_exists = 0 ) =>
            /\ inv[i].ok = 15 /\ inv[i].failed = 0
            /\ Cardinality({t \in QueuedFor(inv[i].video_id) : t.kind = "snapshot"}) = 12
            /\ Cardinality({t \in QueuedFor(inv[i].video_id) : t.kind = "comments"}) = 2
            /\ Cardinality({t \in QueuedFor(inv[i].video_id) : t.kind = "transcript"}) = 1

\* the step is a call of op, logged as the last entry of calls
StepOf(op) == Len(calls') = Len(calls) + 1 /\ calls'[Len(calls')].op = op
Returned == calls'[Len(calls')].result
WindowExpired(r) ==
    [r EXCEPT !.is_active = FALSE, !.inactive_reason = {"monitoring_window_expired"}]
RepeatedExpire ==
    /\ Len(calls) > 0
    /\ calls[Len(calls)].op = "expire_monitoring"
    /\ calls[Len(calls)].at = now

\* C12 as stated: expire_monitoring deactivates a row, with the reason
\* window expired, if and only if the row was active and the time since
\* publish is at least the monitoring window; an immediately repeated call
\* changes nothing and returns 0.
C12_ExpireAtWindow ==
    [][StepOf("expire_monitoring") =>
          /\ \A r \in video_monitoring :
                IF r.is_active /\ now - r.published_at >= monitoring_window_hours
                THEN WindowExpired(r) \in video_monitoring' /\ r \notin video_monitoring'
                ELSE r \in video_monitoring'
          /\ Cardinality(video_monitoring') = Cardinality(video_monitoring)
          /\ RepeatedExpire => (video_monitoring' = video_monitoring /\ Returned = 0)]_vars

\* C12 amended: expire_monitoring deactivates a row if and only if the row
\* was active and the time since publish is greater than the monitoring
\* window; it returns the number of such rows, and an immediately repeated
\* call changes nothing and returns 0.
C12_ExpireAfterWindow ==
    [][StepOf("expire_monitoring") =>
          /\ \A r \in video_monitoring :
                IF r.is_active /\ now - r.published_at > monitoring_window_hours
                THEN WindowExpired(r) \in video_monitoring' /\ r \notin video_monitoring'
                ELSE r \in video_monitoring'
          /\ Cardinality(video_monitoring') = Cardinality(video_monitoring)
          /\ Returned = Cardinality({r \in video_monitoring :
                 r.is_active /\ now - r.published_at > monitoring_window_hours})
          /\ RepeatedExpire => (video_monitoring' = video_monitoring /\ Returned = 0)]_vars

C12_Witness ==
    /\ Len(calls) > 0
    /\ calls[Len(calls)].op = "expire_monitoring" /\ calls[Len(calls)].result > 0
    /\ calls[Len(calls)].at = now
    /\ \E r \in video_monitoring :
          r.is_active /\ now - r.published_at = monitoring_window_hours
    /\ \E r \in video_monitoring :
          ~r.is_active /\ r.inactive_reason = {"monitoring_window_expired"}

LastCall == calls[Len(calls)]
NewCall == calls'[Len(calls')]

\* C13: inactive is terminal.  Through every register_video,
\* expire_monitoring and deactivate_video call a row that is inactive stays
\* inactive, and a video whose rows are all inactive gets no active row
\* again, also when it is registered again.
C13_InactiveIsTerminal ==
    [][/\ \A r \in video_monitoring :
             ~r.is_active =>
                 \E q \in video_monitoring' :
                     q.rid = r.rid /\ q.video_id = r.video_id /\ ~q.is_active
       /\ \A v \in Videos :
             (RowsOf(v) # {} /\ \A r \in RowsOf(v) : ~r.is_active) =>
                 \A q \in video_monitoring' : q.video_id = v => ~q.is_active]_vars

C13_Witness ==
    /\ Len(calls) > 0
    /\ LastCall.op = "register_video"
    /\ RowsOf(LastCall.video_id) # {}
    /\ \A r \in RowsOf(LastCall.video_id) : ~r.is_active /\ r.discovered_at < LastCall.at

\* C14: register_video for a video id that already has a row leaves the
\* table, and so every field of that row, unchanged and returns false, also
\* when it is called with another channel id or publish time.
C14_RegisterNeverUpdates ==
    [][(StepOf("register_video") /\ RowsOf(NewCall.video_id) # {}) =>
          /\ video_monitoring' = video_monitoring
          /\ Returned = FALSE]_vars

C14_Witness ==
    /\ Len(calls) > 0
    /\ LastCall.op = "register_video" /\ LastCall.result = FALSE
    /\ \E r \in RowsOf(LastCall.video_id) :
          /\ r.channel_id # LastCall.channel_id
          /\ r.published_at # LastCall.published_at
          /\ r.discovered_at # LastCall.at

\* C15: deactivate_video(video id, reason) changes the active rows of that
\* video and no other row; for a video without an active row it returns 0
\* and leaves the table unchanged.
C15_DeactivateOnlyActive ==
    [][StepOf("deactivate_video") =>
          /\ \A r \in video_monitoring :
                IF r.video_id = NewCall.video_id /\ r.is_active
                THEN /\ [r EXCEPT !.is_active = FALSE,
                                  !.inactive_reason = {NewCall.reason}]
                            \in video_monitoring'
                     /\ r \notin video_monitoring'
                ELSE r \in video_monitoring'
          /\ Cardinality(video_monitoring') = Cardinality(video_monitoring)
          /\ (\A r \in RowsOf(NewCall.video_id) : ~r.is_active) =>
                (Returned = 0 /\ video_monitoring' = video_monitoring)]_vars

C15_Witness ==
    /\ Len(calls) > 0
    /\ LastCall.op = "deactivate_video" /\ LastCall.result = 0
    /\ \E r \in RowsOf(LastCall.video_id) :
          ~r.is_active /\ r.inactive_reason # {LastCall.reason}

\* the delta a counter must get: the difference to the counter of a stored
\* row with the greatest capture time; null without such a row or when one
\* of the two counters is missing
Difference(cur, old) ==
    IF cur = None \/ old = None THEN None ELSE Some(Val(cur) - Val(old))
\* the SELECT of the previous snapshot returns a stored row of the video
\* with the greatest capture time, null when the video has none
VideoReadsLatest ==
    (handler.pc = "transform" /\ handler.kind = "snapshot"
         /\ handler'.seq = handler.seq /\ handler.stmt = 0 /\ handler'.stmt = 1) =>
        LET prior == {x \in fact_video_snapshot : x.video_id = handler.video_id}
            latest == {x \in prior :
                          \A y \in prior : y.actual_captured_at <= x.actual_captured_at}
        IN  IF prior = {} THEN handler'.prevs = <<None>>
            ELSE \E p \in latest : handler'.prevs = <<Some(p)>>
VideoDeltasFromLatest ==
    /\ VideoReadsLatest
    /\ (handler.pc = "transform" /\ handler.kind = "snapshot"
            /\ handler'.seq = handler.seq /\ handler'.merges = handler.merges + 1) =>
          \A r \in fact_video_snapshot' :
              (r.video_id = handler.video_id
                   /\ r.snapshot_type = ToString(handler.interval) \o "h") =>
                  IF handler.prevs[1] = None
                  THEN /\ r.views_delta = None
                       /\ r.likes_delta = None
                       /\ r.comments_delta = None
                  ELSE LET p == Val(handler.prevs[1])
                       IN  /\ r.views_delta = Difference(r.view_count, p.view_count)
                           /\ r.likes_delta = Difference(r.like_count, p.like_count)
                           /\ r.comments_delta =
                                  Difference(r.comment_count, p.comment_count)
\* the same for the channel transformer: its SELECT, then its second MERGE
ChannelReadsLatest ==
    (handler.pc = "transform" /\ handler.kind = "channels"
         /\ handler'.seq = handler.seq
         /\ Len(handler'.prevs) = Len(handler.prevs) + 1) =>
        LET id == WithStatistics(handler.response)[Len(handler'.prevs)].id
            prior == {x \in fact_channel_snapshot : x.channel_id = id}
            latest == {x \in prior : \A y \in prior : y.snapshot_ts <= x.snapshot_ts}
            prev == handler'.prevs[Len(handler'.prevs)]
        IN  IF prior = {} THEN prev = None ELSE \E p \in latest : prev = Some(p)
ChannelDeltasFromLatest ==
    /\ ChannelReadsLatest
    /\ (handler.pc = "transform" /\ handler.kind = "channels" /\ handler.stmt >= 1
            /\ handler'.seq = handler.seq /\ handler'.merges = handler.merges + 1) =>
          \A k \in DOMAIN handler.prevs :
              \A r \in fact_channel_snapshot' :
                  (r.channel_id = WithStatistics(handler.response)[k].id
                       /\ r.snapshot_date = handler.ts \div HoursPerDay) =>
                      IF handler.prevs[k] = None
                      THEN /\ r.views_delta = None
                           /\ r.subs_delta = None
                           /\ r.videos_delta = None
                      ELSE LET p == Val(handler.prevs[k])
                           IN  /\ r.views_delta =
                                      Difference(r.view_count, p.view_count)
                               /\ r.subs_delta =
                                      Difference(r.subscriber_count, p.subscriber_count)
                               /\ r.videos_delta =
                                      Difference(r.video_count, p.video_count)

\* C16: the row a snapshot transform writes has, for each counter, the
\* difference between the new counter and the counter of the stored row of
\* the entity with the greatest capture time; without a stored row, or when
\* one of the two counters is missing, the delta is null.
C16_DeltaFromLatest ==
    [][VideoDeltasFromLatest /\ ChannelDeltasFromLatest]_vars

\* the video snapshot transformer alone computes every delta in this way
C16_VideoDeltas == [][VideoDeltasFromLatest]_vars

\* C17: an invocation of the snapshot, comment or transcript handler in
\* which the metered API, the blob store or the warehouse raised does not
\* answer with success.
C17_FailurePropagates ==
    (TaskHandler /\ handler.pc = "done" /\ handler.raised # "") =>
        handler.status # 200

\* C19: when the transcript collaborator returns None or empty text, the
\* transcript handler answers without an error and the invocation has
\* merged no dim_video_transcript row.
C19_UnavailableTranscriptNoRow ==
    (/\ handler.kind = "transcript"
     /\ handler.pc = "done"
     /\ handler.raised = ""
     /\ handler.response \in {None, Some(<<>>)}) =>
        /\ handler.status = 200
        /\ handler.merges = 0

\* an invocation that finds nothing to work on: no statistics item for the
\* video, no active tracked channel, no active video
MissingData(h) ==
    /\ h.pc # "idle"
    /\ h.raised = ""
    /\ \/ h.kind = "snapshot" /\ h.response = <<>>
       \/ h.kind = "channels" /\ \A r \in tracked_channels : ~r.is_active
       \/ h.kind = "videos" /\ \A r \in video_monitoring : ~r.is_active

\* C18: a snapshot invocation for which the API returns no statistics, a
\* channel refresh without tracked channels and a video refresh without
\* active videos answer 200, never reach the blob store or a transform, and
\* leave the bucket and every warehouse table as they were.
C18_MissingDataIsSuccess ==
    /\ [](MissingData(handler) =>
            /\ handler.pc \in {"ids", "fetch", "done"}
            /\ handler.uploaded = <<>>
            /\ handler.merges = 0
            /\ handler.pc = "done" => handler.status = 200)
    /\ [][MissingData(handler') => UNCHANGED <<warehouseVars, gcs>>]_vars

C18_Witness ==
    /\ handler.kind = "videos"
    /\ handler.pc = "done"
    /\ handler.status = 200
    /\ handler.seq = 2
    /\ video_monitoring # {}
    /\ \A r \in video_monitoring : ~r.is_active
    /\ gcs # <<>>

\* C20: for an empty body, unparseable XML (bytes that are not UTF-8, text
\* that is not well-formed), a feed without an entry and an
\* entry whose video id or channel id is missing or blank, every delivery is
\* answered with 200 without a warehouse query, a registration or a fan-out:
\* video_monitoring and the queue stay empty.
C20_MalformedAccepted ==
    (\/ feed.shape \in {"empty", "not_utf8", "bad_xml", "no_entry", "missing_ids"}
     \/ feed.videoId \in {"", " "}
     \/ feed.channelId \in {"", " "}) =>
        /\ \A i \in Slots :
              /\ inv[i].pc \in {"idle", "done"}
              /\ inv[i].pc = "done" => inv[i].status = 200
              /\ ~inv[i].called_register
              /\ ~inv[i].called_fanout
              /\ ~inv[i].detected
        /\ video_monitoring = {}
        /\ queue = EmptyBag
        /\ calls = <<>>

\* C21: in a channel or video refresh whose blob write of one item raised,
\* every other item of the batch still has its blob in the bucket and its
\* row in the dimension table.
C21_BatchFailureIsolated ==
    (handler.kind \in {"channels", "videos"} /\ handler.pc = "done"
         /\ handler.raised = "blob") =>
        \A k \in DOMAIN handler.response :
            k # Len(handler.uploaded) + 1 =>
                /\ UploadItems(handler)[k].path \in DOMAIN gcs
                /\ IF handler.kind = "videos"
                   THEN \E r \in dim_video : r.video_id = handler.response[k].id
                   ELSE \E r \in dim_channel : r.channel_id = handler.response[k].id

\* the events of the execution with sequence number seq, in order
EventsOf(seq) == SelectSeq(calls, LAMBDA e : e.seq = seq)
IssuedIn(seq) == SelectSeq(calls, LAMBDA e : e.seq = seq /\ e.op = "issued")
CompletedIn(seq) == SelectSeq(calls, LAMBDA e : e.seq = seq /\ e.op = "completed")

\* C22: in every execution of compute_features the feature computations are
\* run in the order channel, video_performance, video_content, temporal,
\* comment_aggregates, none of them twice; the channel merge has completed
\* when the video_performance merge is issued; and an execution that
\* answers 200 has run each of the five exactly once.
C22_FeaturesInRegistryOrder ==
    \A seq \in 1..delivered :
        LET order == <<"channel", "video_performance", "video_content", "temporal",
                       "comment_aggregates">>
            ev == EventsOf(seq)
            issued == IssuedIn(seq)
        IN  /\ Len(issued) <= 5
            /\ \A k \in 1..Len(issued) : issued[k].feature = order[k]
            /\ \A k \in 1..Len(ev) :
                  (ev[k].op = "issued" /\ ev[k].feature = "video_performance") =>
                      \E j \in 1..(k - 1) :
                          ev[j].op = "completed" /\ ev[j].feature = "channel"
            /\ (handler.seq = seq /\ handler.kind = "features" /\ handler.pc = "done"
                    /\ handler.status = 200) =>
                  /\ Len(issued) = 5
                  /\ Len(CompletedIn(seq)) = 5
                  /\ \A k \in 1..5 : CompletedIn(seq)[k].feature = order[k]

C22_Witness ==
    /\ handler.kind = "features"
    /\ handler.pc = "done"
    /\ handler.status = 200
    /\ handler.seq = 2
    /\ Len(CompletedIn(1)) = 5
    /\ Len(CompletedIn(2)) = 5

\* C23: whatever rows video_monitoring holds, several per video included,
\* get_active_video_ids returns every video id that has an active row
\* exactly once and no id without an active row.
C23_ActiveIdsOnce ==
    [][StepOf("get_active_video_ids") =>
          /\ \A v \in Videos :
                Cardinality({k \in DOMAIN Returned : Returned[k] = v})
                    = IF \E r \in video_monitoring : r.video_id = v /\ r.is_active
                      THEN 1 ELSE 0
          /\ \A k \in DOMAIN Returned : Returned[k] \in Videos]_vars

C23_Witness ==
    /\ Len(calls) > 0
    /\ LastCall.op = "get_active_video_ids"
    /\ LastCall.result = <<"v1">>
    /\ Cardinality({r \in video_monitoring : r.video_id = "v1" /\ r.is_active}) = 2
    /\ \E r \in video_monitoring : r.video_id = "v2" /\ ~r.is_active

\* the interval of a task's slot: the snapshot or comment hours, 24 for the
\* transcript
SlotHours(t) == IF t.kind = "transcript" THEN 24 ELSE t.hours

\* C24: every task in the queue is scheduled at the publish time its run of
\* enqueue_fanout was given plus the interval of its slot (24 hours for the
\* transcript), whatever the clock showed when the run created it.
C24_ScheduleFromPublish ==
    \A t \in BagToSet(queue) :
        \E i \in Slots :
            /\ inv[i].called_fanout
            /\ inv[i].video_id = t.video_id
            /\ t.published_at = ToString(inv[i].published_at) \o ":00:00+00:00"
            /\ t.schedule_time = inv[i].published_at + SlotHours(t)

C24_Witness ==
    /\ now > StartHour
    /\ \E i \in Slots, j \in Slots :
          /\ inv[i].pc = "done" /\ inv[i].ok = 20 /\ inv[i].published_at = PublishHour
          /\ inv[j].pc = "done" /\ inv[j].ok = 20
          /\ inv[j].published_at = PublishHour + 1
          /\ inv[i].video_id # inv[j].video_id
    /\ Cardinality(BagToSet(queue)) = 40
    /\ \E t \in BagToSet(queue) :
          t.kind = "transcript" /\ t.schedule_time = PublishHour + 24
    /\ \E t \in BagToSet(queue) :
          t.kind = "snapshot" /\ t.hours = 72 /\ t.schedule_time = PublishHour + 1 + 72

\* C25: the notify handler registers a video and schedules its fan-out only
\* for a notification whose channel id has an active tracked_channels row;
\* for any other channel video_monitoring and the queue get nothing.
C25_OnlyTrackedChannels ==
    LET tracked == {r.channel_id : r \in {x \in tracked_channels : x.is_active}}
    IN  /\ \A i \in Slots :
              (inv[i].called_register \/ inv[i].called_fanout) =>
                  inv[i].channel_id \in tracked
        /\ \A r \in video_monitoring : r.channel_id \in tracked
        /\ \A t \in BagToSet(queue) : t.channel_id \in tracked

\* C26: a merge of comment threads leaves, in every fact_comment row that
\* already existed, video_id, channel_id, parent_comment_id, is_reply,
\* commenter_channel_id, commenter_name, published_at, sample_strategy and
\* sample_rank as inserted on first sight, and sets like_count, reply_count,
\* comment_text, updated_at, pulled_at and pull_date of every re-pulled row to
\* the values of the pull.
C26_RepullUpdatesMutableOnly ==
    [][\A t \in fact_comment : \A s \in fact_comment' :
          s.comment_id = t.comment_id =>
             /\ s.video_id = t.video_id
             /\ s.channel_id = t.channel_id
             /\ s.parent_comment_id = t.parent_comment_id
             /\ s.is_reply = t.is_reply
             /\ s.commenter_channel_id = t.commenter_channel_id
             /\ s.commenter_name = t.commenter_name
             /\ s.published_at = t.published_at
             /\ s.sample_strategy = t.sample_strategy
             /\ s.sample_rank = t.sample_rank
             /\ (handler.kind = "comments" /\ handler'.seq = handler.seq /\ handler'.merges = handler.merges + 1) =>
                   \A k \in DOMAIN handler.response :
                      LET c == handler.response[k]
                          Pulled(x, replies) ==
                             /\ s.like_count = x.likeCount
                             /\ s.reply_count = replies
                             /\ s.comment_text = x.textDisplay
                             /\ s.updated_at =
                                   (IF x.updatedAt = None THEN None
                                    ELSE Some(parse_iso(Val(x.updatedAt))))
                             /\ s.pulled_at = handler.at
                             /\ s.pull_date = date(handler.at)
                      IN  c.has_snippet =>
                             /\ c.id = s.comment_id => Pulled(c, c.totalReplyCount)
                             /\ \A j \in DOMAIN c.replies :
                                   (c.replies[j].has_snippet
                                       /\ c.replies[j].id = s.comment_id) =>
                                      Pulled(c.replies[j], 0)]_vars
\* comment c1 was inserted as the first thread of ann's, published at the
\* publish hour, and re-pulled an hour or more later, edited, as the third
\* thread, under the author's new name, without the author's channel and with
\* another publication time
C26_Witness ==
    \E s \in fact_comment :
        /\ s.comment_id = "c1"
        /\ s.comment_text = "first (edited)"
        /\ s.updated_at = Some(PublishHour + 1)
        /\ s.pulled_at > TaskStartHour
        /\ s.sample_rank = Some(1)
        /\ s.commenter_name = "ann"
        /\ s.commenter_channel_id = Some("UC-ann")
        /\ s.published_at = Some(PublishHour)

C28_RowUnderScheduledSlot ==
    [][(handler.kind = "snapshot" /\ handler'.seq = handler.seq /\ handler'.merges = handler.merges + 1) =>
          LET label == ToString(handler.interval) \o "h"
          IN  /\ \E s \in fact_video_snapshot' :
                    /\ s.video_id = handler.video_id
                    /\ s.snapshot_type = label
                    /\ s.hours_since_publish = handler.interval
                    /\ s.actual_captured_at = handler.at
                    /\ s.actual_hours_since_publish = handler.at - PublishHour
              /\ \A s \in fact_video_snapshot' :
                    (s.video_id # handler.video_id \/ s.snapshot_type # label) =>
                        \E t \in fact_video_snapshot :
                            [s EXCEPT !.rid = 0] = [t EXCEPT !.rid = 0]]_vars
\* the task of the 1h slot ran 22 hours after publication and its row is
\* the 1h row
C28_Witness ==
    \E s \in fact_video_snapshot :
        /\ s.snapshot_type = "1h"
        /\ s.hours_since_publish = 1
        /\ s.actual_hours_since_publish = TaskStartHour + 1 - PublishHour
        /\ s.actual_hours_since_publish > s.hours_since_publish

\* the rows a comments task writes for the threads of a response none of
\* whose comments has a row yet: per thread with a top-level snippet, one
\* top-level row and one row per reply (per reply with a snippet, if
\* usable_only)
FlattenedOnFirstSight(usable_only) ==
    (/\ handler.kind = "comments"
     /\ handler'.seq = handler.seq /\ handler'.merges = handler.merges + 1
     /\ fact_comment = {}) =>
        \A k \in DOMAIN handler.response :
           LET th == handler.response[k]
               counted == {j \in DOMAIN th.replies :
                              usable_only => th.replies[j].has_snippet}
               mine == {s \in fact_comment' :
                           s.comment_id = th.id \/ s.parent_comment_id = Some(th.id)}
           IN  th.has_snippet =>
                  /\ Cardinality(mine) = 1 + Cardinality(counted)
                  /\ \E s \in mine :
                        /\ s.comment_id = th.id
                        /\ s.is_reply = FALSE
                        /\ s.parent_comment_id = None
                        /\ s.sample_rank # None
                        /\ (k = 1 => s.sample_rank = Some(1))
                  /\ \A s \in mine :
                        s.comment_id # th.id =>
                           /\ \E j \in DOMAIN th.replies : th.replies[j].id = s.comment_id
                           /\ s.is_reply = TRUE
                           /\ s.parent_comment_id = Some(th.id)
                           /\ s.sample_rank = None

\* C29 as stated: a thread with a usable top-level comment and r replies
\* yields 1 + r rows, the top-level row unparented and ranked, every reply
\* row parented to the thread's top-level comment and unranked.
C29_FlattenAllReplies == [][FlattenedOnFirstSight(FALSE)]_vars

\* C29 (amended): a thread with a usable top-level comment and r replies
\* that carry a snippet yields 1 + r rows, the top-level row with
\* is_reply = FALSE, no parent and a sample rank (1 for the first thread),
\* every reply row with is_reply = TRUE, the thread's top-level comment id
\* as parent and no sample rank.
C29_FlattenUsableReplies == [][FlattenedOnFirstSight(TRUE)]_vars
\* a thread with one reply was flattened into its two rows
C29_Witness ==
    /\ handler.kind = "comments" /\ handler.pc = "done" /\ handler.merges = 1
    /\ Len(handler.response) = 1 /\ Len(handler.response[1].replies) = 1
    /\ \E s \in fact_comment : s.comment_id = "c1" /\ s.sample_rank = Some(1)
    /\ \E s \in fact_comment :
          s.comment_id = "c1.r1" /\ s.is_reply /\ s.parent_comment_id = Some("c1")
    /\ Cardinality(fact_comment) = 2

\* the text with each backslash, single quote, newline and carriage return
\* replaced by its backslash escape
RECURSIVE BackslashEscaped(_)
BackslashEscaped(text) ==
    IF text = <<>>
    THEN <<>>
    ELSE (CASE Head(text) = "\\" -> <<"\\", "\\">>
            [] Head(text) = "'" -> <<"\\", "'">>
            [] Head(text) = "\n" -> <<"\\", "n">>
            [] Head(text) = "\r" -> <<"\\", "r">>
            [] OTHER -> <<Head(text)>>)
         \o BackslashEscaped(Tail(text))

\* C30: the literal that the channel, video and comment transformers put in
\* their MERGE statement for a free-text value is the quoted value with each
\* backslash, single quote, newline and carriage return replaced by its
\* backslash escape, and holds no raw newline or carriage return.
C30_FreeTextEscaped ==
    \A k \in DOMAIN calls :
        (calls[k].op = "run_merge" /\ calls[k].value # None) =>
            /\ calls[k].literal = <<"'">> \o BackslashEscaped(Val(calls[k].value))
                                         \o <<"'">>
            /\ \A j \in DOMAIN calls[k].literal :
                  calls[k].literal[j] \notin {"\n", "\r"}

OrZero(x) == IF x = None THEN 0 ELSE Val(x)

\* C31: parse_iso8601_duration returns 3600*h + 60*m + s for 'PT<h>H<m>M<s>S',
\* an omitted component counting 0, and 0 for a string that does not start
\* with 'PT'.
C31_DurationSeconds ==
    \A k \in DOMAIN calls :
        calls[k].op = "parse_iso8601_duration" =>
            IF Len(calls[k].duration) >= 2
                  /\ calls[k].duration[1] = "P" /\ calls[k].duration[2] = "T"
            THEN calls[k].result = 3600 * OrZero(calls[k].h) + 60 * OrZero(calls[k].m)
                                       + OrZero(calls[k].s)
            ELSE calls[k].result = 0
\* 'PT1H2M30S' was parsed to 3750
C31_Witness ==
    \E k \in DOMAIN calls :
        /\ calls[k].duration = <<"P", "T", "1", "H", "2", "M", "3", "0", "S">>
        /\ calls[k].result = 3750
\* 'PT10M' was parsed to 600
C31_WitnessMinutes ==
    \E k \in DOMAIN calls :
        calls[k].duration = <<"P", "T", "1", "0", "M">> /\ calls[k].result = 600

\* C32: a function wrapped with retry(max_retries = n) is called at most n + 1
\* times; the wrapper returns the result of the first successful call, which
\* is the last call; it raises the last exception after n + 1 retryable
\* failures; an exception outside retryable_exceptions is raised by the
\* wrapper at the call that raised it (after exactly one call when it is the
\* first); and every call of the wrapper ends.
C32_RetryBounded ==
    /\ [](handler.pc \in {"attempt", "sleep", "returned", "raised"} =>
            LET n == handler.max_retries
                made == Len(calls)
                retryable(k) == calls[k].outcome \in handler.retryable_exceptions
            IN  /\ made <= n + 1
                /\ \A k \in 1..(made - 1) : retryable(k)
                /\ handler.pc = "returned" =>
                      calls[made].outcome = "ok" /\ handler.result = Some("ok")
                /\ handler.pc = "raised" =>
                      /\ calls[made].outcome # "ok"
                      /\ handler.raised = Some(calls[made].outcome)
                      /\ retryable(made) => made = n + 1
                /\ (made >= 1 /\ calls[1].outcome # "ok" /\ ~retryable(1)) =>
                      made = 1 /\ handler.pc = "raised")
    /\ (handler.pc = "attempt" ~> handler.pc \in {"returned", "raised"})
\* retry(max_retries = 2): two retryable failures, then the third call
\* succeeded and its result was returned
C32_Witness ==
    /\ handler.pc = "returned" /\ handler.max_retries = 2
    /\ Len(calls) = 3
    /\ calls[1].outcome = "ValueError" /\ calls[2].outcome = "TypeError"
    /\ calls[3].outcome = "ok"
\* retry(max_retries = 2) gave up after three retryable failures
C32_WitnessExhausted ==
    /\ handler.pc = "raised" /\ handler.max_retries = 2 /\ Len(calls) = 3
    /\ handler.raised = Some("ValueError")

SnapshotKeys(table) == {<<r.video_id, r.snapshot_type>> : r \in table}

\* C33: whatever rows the tasks that ran before have left, a snapshot task
\* that reaches its transform can complete it, and the transform adds the
\* task's own key (video_id, label) to the keys of the table, gives that row
\* the view, like and comment counters of the task's own API response, and
\* leaves the rows of all other keys as they are; so the keys and the
\* counters per key of the final table do not depend on the order of the
\* tasks.
C33_OrderIndependent ==
    /\ []((handler.pc = "transform" /\ handler.kind = "snapshot") =>
             ENABLED (SelectPreviousSnapshot \/ MergeSnapshot))
    /\ [][(handler.kind = "snapshot" /\ handler'.seq = handler.seq /\ handler'.merges = handler.merges + 1) =>
             LET key == <<handler.video_id, ToString(handler.interval) \o "h">>
                 stats == handler.response[1].statistics
                 Count(field) == IF stats # None THEN safe_int(Val(stats)[field])
                                 ELSE None
             IN  /\ SnapshotKeys(fact_video_snapshot') =
                        SnapshotKeys(fact_video_snapshot) \cup {key}
                 /\ \A s \in fact_video_snapshot' :
                       IF <<s.video_id, s.snapshot_type>> = key
                       THEN /\ s.view_count = Count("viewCount")
                            /\ s.like_count = Count("likeCount")
                            /\ s.comment_count = Count("commentCount")
                       ELSE \E t \in fact_video_snapshot :
                               [s EXCEPT !.rid = 0] = [t EXCEPT !.rid = 0]
                 /\ Cardinality(fact_video_snapshot') =
                        Cardinality(SnapshotKeys(fact_video_snapshot'))]_vars
\* the 2h task of a video ran an hour before its 1h task, and both rows are
\* there with different view counts
C33_Witness ==
    \E a \in fact_video_snapshot : \E b \in fact_video_snapshot :
        /\ a.video_id = b.video_id
        /\ a.snapshot_type = "1h" /\ b.snapshot_type = "2h"
        /\ b.actual_captured_at < a.actual_captured_at
        /\ a.view_count = Some(3) /\ b.view_count = Some(1)

\* C34: with the default window and schedule (72 hours each), no queued task
\* of a registered video is scheduled later than monitoring_until of the
\* video's row, and once the run that registered the video has queued its
\* whole plan, the last snapshot task of the schedule is queued for exactly
\* monitoring_until.
C34_ScheduleWithinWindow ==
    \A r \in video_monitoring :
        /\ r.monitoring_until = r.published_at + 72
        /\ \A t \in BagToSet(queue) :
              t.video_id = r.video_id => t.schedule_time <= r.monitoring_until
        /\ \A i \in Slots :
              (inv[i].video_id = r.video_id /\ inv[i].called_fanout
                  /\ inv[i].pc = "done" /\ inv[i].failed = 0
                  /\ cloud_run_service_url # "") =>
                 \E t \in BagToSet(queue) :
                    /\ t.video_id = r.video_id /\ t.kind = "snapshot"
                    /\ \A u \in BagToSet(queue) :
                          (u.video_id = r.video_id /\ u.kind = "snapshot") =>
                              u.hours <= t.hours
                    /\ t.schedule_time = r.monitoring_until
\* a registered video whose 72h snapshot task is queued for monitoring_until
\* video ids, some of which end like a task identifier
VideoIdSamples ==
    Videos \cup {"v1-snapshot", "v1-snapshot-1h", "v1-comments-24h", "v1-transcript",
                 "v1-snapshot-1", "1h", "v"}

\* C35: the identifiers of the fan-out plan of one video are pairwise
\* distinct and the identifier of a task of one video is never the
\* identifier of a task of another video; so whenever create_task answers
\* AlreadyExists, the queue holds the same logical task (same video, kind
\* and interval) from an earlier creation.
C35_TaskIdsIdentifyTasks ==
    /\ [](/\ \A v \in VideoIdSamples : Cardinality(PlanIds(v)) = Len(FanoutPlan)
          /\ \A v \in VideoIdSamples, w \in VideoIdSamples :
                v # w => PlanIds(v) \cap PlanIds(w) = {})
    /\ [][\A i \in Slots :
             inv'[i].already_exists = inv[i].already_exists + 1 =>
                \E t \in BagToSet(queue) :
                   /\ t.video_id = inv[i].video_id
                   /\ t.kind = FanoutPlan[inv[i].idx + 1].kind
                   /\ t.hours = FanoutPlan[inv[i].idx + 1].hours]_vars
\* a second run for one video met AlreadyExists for all its tasks while
\* the tasks of another video are in the queue too
C35_Witness ==
    \E i \in Slots :
        /\ inv[i].pc = "done" /\ inv[i].already_exists > 0
        /\ \E t \in BagToSet(queue) : t.video_id = inv[i].video_id

\* C36: through every register_video, expire_monitoring and deactivate_video
\* call, with any reason, an inactive row keeps the inactive_reason that the
\* transition which deactivated it has recorded.
C36_ReasonNeverOverwritten ==
    [][\A r \in video_monitoring :
          ~r.is_active =>
              \E q \in video_monitoring' :
                  /\ q.rid = r.rid /\ q.video_id = r.video_id
                  /\ q.inactive_reason = r.inactive_reason
                  /\ q.inactive_reason # None]_vars
\* deactivate_video was called, with another reason, for a video whose row
\* was already inactive, and the row has the first reason
C36_Witness ==
    /\ Len(calls) > 1
    /\ LastCall.op = "deactivate_video" /\ LastCall.result = 0
    /\ \E r \in RowsOf(LastCall.video_id) :
          /\ ~r.is_active
          /\ r.inactive_reason # None
          /\ r.inactive_reason # {LastCall.reason}

\* C37: the snapshot, comment and transcript handlers leave video_monitoring
\* as it is, and an invocation that got data from the API and met no
\* failure has written its blob and merged its rows when it answers,
\* whether the video's monitoring row is active, inactive or missing.
C37_TasksIgnoreDeactivation ==
    /\ [][(TaskHandler' /\ handler' # handler) =>
             video_monitoring' = video_monitoring]_vars
    /\ []((/\ TaskHandler /\ handler.pc = "done" /\ handler.raised = ""
           /\ handler.kind = "snapshot" => handler.response # <<>>
           /\ handler.kind = "transcript" => handler.response # None) =>
             /\ handler.status = HTTP_OK
             /\ BlobsWritten(handler)
             /\ handler.kind = "snapshot" =>
                   \E s \in fact_video_snapshot :
                      /\ s.video_id = handler.video_id
                      /\ s.hours_since_publish = handler.interval
                      /\ s.actual_captured_at = handler.at
             /\ handler.kind = "transcript" =>
                   \E s \in dim_video_transcript :
                      /\ s.video_id = handler.video_id
                      /\ s.word_count = Len(Val(handler.response))
                      /\ s.fetched_at = handler.at
             /\ handler.kind = "comments" =>
                   \A k \in DOMAIN handler.response :
                      handler.response[k].has_snippet =>
                         \E s \in fact_comment :
                            /\ s.comment_id = handler.response[k].id
                            /\ s.pulled_at = handler.at)
\* a snapshot task fired after deactivate_video had made the video's row
\* inactive, and wrote its blob and its row
C37_Witness ==
    /\ handler.kind = "snapshot" /\ handler.pc = "done" /\ handler.merges = 1
    /\ Len(calls) > 0 /\ calls[1].op = "deactivate_video" /\ calls[1].result = 1
    /\ RowsOf(handler.video_id) # {}
    /\ \A r \in RowsOf(handler.video_id) : ~r.is_active
    /\ \E s \in fact_video_snapshot : s.video_id = handler.video_id
    /\ handler.uploaded # <<>>

\* C38: with an empty service URL no task is ever queued; the invocation
\* that called enqueue_fanout had registered the video, counted no task and
\* answered 200, the video's row stays, and every delivery received after
\* that answer is detected as a duplicate before it registers anything.
C38_EmptyUrlRegistersWithoutTasks ==
    cloud_run_service_url = "" =>
        /\ queue = EmptyBag
        /\ \A i \in Slots :
              (inv[i].called_fanout /\ inv[i].pc = "done") =>
                 /\ inv[i].status = HTTP_OK
                 /\ inv[i].called_register
                 /\ inv[i].ok = 0 /\ inv[i].failed = 0 /\ inv[i].issued = <<>>
                 /\ \E r \in video_monitoring : r.video_id = inv[i].video_id /\ r.is_active
                 /\ \A j \in Slots :
                       (/\ inv[j].seq > inv[i].seq /\ inv[j].pc = "done"
                        /\ inv[j].video_id = inv[i].video_id) =>
                          /\ inv[j].detected
                          /\ inv[j].status = HTTP_OK
                          /\ ~inv[j].called_register /\ ~inv[j].called_fanout
\* the first delivery registered the video without a task, a later delivery
\* was answered as a duplicate
C38_Witness ==
    /\ cloud_run_service_url = ""
    /\ queue = EmptyBag
    /\ \E i \in Slots, j \in Slots :
          /\ inv[i].called_fanout /\ inv[i].pc = "done" /\ inv[i].status = HTTP_OK
          /\ inv[j].seq > inv[i].seq /\ inv[j].pc = "done" /\ inv[j].detected
          /\ \E r \in video_monitoring : r.video_id = inv[i].video_id

\* C39: the top-level rows that one flattening emits into an empty
\* fact_comment carry the sample ranks 1..k, k being their number, in the
\* order of the API response, also when threads without a usable top-level
\* comment were skipped.
C39_RanksConsecutive ==
    [][(/\ handler.kind = "comments"
        /\ handler'.seq = handler.seq /\ handler'.merges = handler.merges + 1
        /\ fact_comment = {}) =>
           LET tops == {s \in fact_comment' : ~s.is_reply}
               Position(s) == CHOOSE k \in DOMAIN handler.response :
                                  handler.response[k].id = s.comment_id
           IN  /\ {s.sample_rank : s \in tops} = {Some(n) : n \in 1..Cardinality(tops)}
               /\ \A s \in tops, t \in tops :
                     Position(s) < Position(t) =>
                         Val(s.sample_rank) < Val(t.sample_rank)]_vars

====
